---------------------------- MODULE Spec2Model ----------------------------
(***************************************************************************)
(* A model of the resume/job analysis engine of resume-optimizer-fastapi:  *)
(* the text analyzer, the match scorer and the suggestion engine of        *)
(* enhanced_analyzer.py, and the SimpleAnalyzer wrapper around them.       *)
(*                                                                         *)
(* Texts are sequences of one-character strings.  Python numbers are       *)
(* exact rationals <<numerator, denominator>> (denominator > 0, lowest     *)
(* terms), so that "unrounded" and "rounded to one decimal" are different  *)
(* values.  A Python call either returns a value or raises: a result is a  *)
(* record [raised |-> exception name or None, value |-> ...].              *)
(***************************************************************************)
EXTENDS Integers, Sequences, FiniteSets, TLC

VARIABLES
    pc,               \* position of the caller in the analysis pipeline
    resume_text,      \* the resume text handed to analyze_resume
    job_description,  \* the job text handed to the job analysis
    resume_analysis,  \* Facts of the resume, or None
    job_analysis,     \* Facts of the job, or None
    match_analysis,   \* MatchResult, or None
    basic_suggestions, \* the suggestion list, or None
    raised,           \* the exception that reached the caller, or None
    call,             \* the public method called last, or None
    catalog,          \* the lists and tables of the analyzer object
    ai_services_active,   \* main.py: the AI collaborator was initialised
    perplexity_insights,  \* upload_resume: what the AI step got, or None
    enhanced_suggestions, \* upload_resume: the suggestions shown, or None
    ai_enhanced,      \* upload_resume: AI items were merged, or None
    ai_warning,       \* upload_resume: the exception the AI step logged, or None
    response,         \* upload_resume: the response of the request, or None
    files,            \* the paths of the files that exist under uploads/
    file_path,        \* upload_resume: its local variable file_path, or None
    generated_resumes, \* upload_resume: its list generated_resumes, or None
    served,           \* download_file, preview_resume: the request and its answer, or None
    strength          \* what get_match_strength returned to its caller, or None

vars == <<pc, resume_text, job_description, resume_analysis, job_analysis,
          match_analysis, basic_suggestions, raised, call, catalog,
          ai_services_active, perplexity_insights, enhanced_suggestions,
          ai_enhanced, ai_warning, response, files, file_path,
          generated_resumes, served, strength>>

\* The variables of upload_resume that the analyzer does not touch.
upload_vars == <<ai_services_active, perplexity_insights, enhanced_suggestions,
                 ai_enhanced, ai_warning, response, files, file_path,
                 generated_resumes, served, strength>>

\* Python's None.
None == "None"

(***************************************************************************)
(* Characters and strings                                                  *)
(***************************************************************************)

LowerLetters == <<"a","b","c","d","e","f","g","h","i","j","k","l","m",
                  "n","o","p","q","r","s","t","u","v","w","x","y","z">>
UpperLetters == <<"A","B","C","D","E","F","G","H","I","J","K","L","M",
                  "N","O","P","Q","R","S","T","U","V","W","X","Y","Z">>
Range(s) == {s[i] : i \in DOMAIN s}
LowerSet == Range(LowerLetters)
UpperSet == Range(UpperLetters)
DigitChars == <<"0","1","2","3","4","5","6","7","8","9">>
DigitSet == Range(DigitChars)
\* \s of the re module, as far as the model's alphabet goes.
SpaceSet == {" ", "\t", "\n"}
\* \w of the re module: letters, digits and the underscore.
WordSet == LowerSet \cup UpperSet \cup DigitSet \cup {"_"}
\* One character outside \x00-\x7F stands for all of them.
NonAscii == "<e-acute>"

\* str.lower() on one character.
LowerChar(c) ==
    IF c \in UpperSet
    THEN LowerLetters[CHOOSE i \in 1..26 : UpperLetters[i] = c]
    ELSE c

\* str.lower()
Lower(t) == [i \in 1..Len(t) |-> LowerChar(t[i])]

\* The decimal digits of the largest float, 1.797...e308: an int of more
\* digits is above every float.
FloatDigits == 309

\* An int above every float.  The numbers in the texts of the model have at
\* most two digits or more than FloatDigits, and the model holds every int of
\* the second kind as Huge: it compares and subtracts as a number larger than
\* the others, and float() does not convert it.
Huge == 1000000

\* The digits of a str as a number: int(s) for s made of digits.
DigitVal(c) == (CHOOSE i \in 1..10 : DigitChars[i] = c) - 1
RECURSIVE Significant(_)
Significant(s) == IF s # <<>> /\ s[1] = "0" THEN Significant(Tail(s)) ELSE s
RECURSIVE Decimal(_)
Decimal(s) == IF s = <<>> THEN 0 ELSE 10 * Decimal(SubSeq(s, 1, Len(s) - 1)) + DigitVal(s[Len(s)])
IntOf(s) == IF Len(Significant(s)) > FloatDigits THEN Huge ELSE Decimal(s)

\* str.strip(): leading and trailing whitespace removed.
RECURSIVE LStrip(_)
LStrip(t) == IF t # <<>> /\ t[1] \in SpaceSet THEN LStrip(Tail(t)) ELSE t
RECURSIVE RStrip(_)
RStrip(t) ==
    IF t # <<>> /\ t[Len(t)] \in SpaceSet THEN RStrip(SubSeq(t, 1, Len(t) - 1)) ELSE t
Strip(t) == RStrip(LStrip(t))

\* `lit in text`: text has lit as a contiguous run of characters.
StartsAt(t, lit, i) ==
    /\ i + Len(lit) - 1 <= Len(t)
    /\ \A k \in 1..Len(lit) : t[i + k - 1] = lit[k]
Contains(t, lit) == \E i \in 1..(Len(t) + 1) : StartsAt(t, lit, i)

\* len(text.split()): the number of maximal runs of non-whitespace.
WordCount(t) ==
    Cardinality({i \in 1..Len(t) :
        /\ t[i] \notin SpaceSet
        /\ (i = 1 \/ t[i - 1] \in SpaceSet)})

RECURSIVE Flatten(_)
\* The sequences of ss, one after the other.
Flatten(ss) ==
    IF ss = <<>> THEN <<>>
    ELSE IF Len(ss) = 1 THEN ss[1]
    ELSE LET half == Len(ss) \div 2
         IN  Flatten(SubSeq(ss, 1, half)) \o Flatten(SubSeq(ss, half + 1, Len(ss)))

(***************************************************************************)
(* Regular expressions of the re module.  A pattern is a tree; Match gives *)
(* the first way the pattern matches at a position in the order in which   *)
(* the backtracking matcher tries the ways (greedy repeats first,          *)
(* alternatives left to right): the match re reports.  A match state is    *)
(* the position after the match and the spans of the capture groups.       *)
(***************************************************************************)

Lit(s)        == [k |-> "lit", s |-> s]
In(cs)        == [k |-> "in", cs |-> cs]
NotIn(cs)     == [k |-> "notin", cs |-> cs]
Dot           == [k |-> "any"]
Cat(rs)       == [k |-> "cat", rs |-> rs]
Alt(rs)       == [k |-> "alt", rs |-> rs]
Rep(r, lo, hi) == [k |-> "rep", r |-> r, lo |-> lo, hi |-> hi]
GrpN(n, r)    == [k |-> "grp", n |-> n, r |-> r]
Grp(r)        == GrpN(1, r)
WB            == [k |-> "wb"]
\* hi of an unbounded repeat
Inf == 0 - 1
Star(r) == Rep(r, 0, Inf)
Plus(r) == Rep(r, 1, Inf)
Opt(r)  == Rep(r, 0, 1)

\* \b: a word character on exactly one side of position p.
IsWordAt(t, i) == i >= 1 /\ i <= Len(t) /\ t[i] \in WordSet
AtBoundary(t, p) == IsWordAt(t, p - 1) # IsWordAt(t, p)

SetGroup(g, n, span) == [k \in DOMAIN g \cup {n} |-> IF k = n THEN span ELSE g[k]]

St(p) == [p |-> p, g |-> <<>>]

\* The state of no match.
NoMatch == St(0)

\* What the matcher has still to do after a group opened at `from` (close it)
\* and after one repetition that began at `from` (repeat again).
EndGrp(n, from) == [k |-> "endgrp", n |-> n, from |-> from]
Again(r, lo, hi, from) == [k |-> "again", r |-> r, lo |-> lo, hi |-> hi, from |-> from]

\* Whether the one-character pattern r takes character c.
Takes(r, c) ==
    CASE r.k = "in" -> c \in r.cs
      [] r.k = "notin" -> c \notin r.cs
      [] r.k = "any" -> c # "\n"

RECURSIVE RunLength(_, _, _, _)
\* The number of characters from position p up to position `last` that the
\* one-character pattern r takes one after the other.
RunLength(r, t, p, last) ==
    LET block == IF p + 7 < last THEN p + 7 ELSE last
        stops == {q \in p..block : ~Takes(r, t[q])}
    IN  IF stops # {} THEN (CHOOSE q \in stops : \A q2 \in stops : q <= q2) - p
        ELSE IF block = last THEN last + 1 - p
        ELSE (block + 1 - p) + RunLength(r, t, block + 1, last)

RECURSIVE FirstChars(_)
\* The characters with which a match of the patterns of `todo`, one after
\* the other, can begin; `any` if it can be empty or begin with any other.
FirstChars(todo) ==
    IF todo = <<>> THEN [any |-> TRUE, cs |-> {}]
    ELSE LET re == Head(todo)
             rest == Tail(todo)
             either(a, b) == [any |-> a.any \/ b.any, cs |-> a.cs \cup b.cs]
         IN  CASE re.k = "lit" ->
                    IF re.s = <<>> THEN FirstChars(rest) ELSE [any |-> FALSE, cs |-> {re.s[1]}]
               [] re.k = "in" -> [any |-> FALSE, cs |-> re.cs]
               [] re.k \in {"notin", "any", "wb", "again"} -> [any |-> TRUE, cs |-> {}]
               [] re.k = "grp" -> FirstChars(<<re.r>> \o rest)
               [] re.k = "endgrp" -> FirstChars(rest)
               [] re.k = "cat" -> FirstChars(re.rs \o rest)
               [] re.k = "alt" ->
                    [ any |-> \E i \in DOMAIN re.rs : FirstChars(<<re.rs[i]>> \o rest).any,
                      cs  |-> UNION {FirstChars(<<re.rs[i]>> \o rest).cs : i \in DOMAIN re.rs} ]
               [] re.k = "rep" ->
                    IF re.lo <= 0 THEN either(FirstChars(<<re.r>> \o rest), FirstChars(rest))
                    ELSE FirstChars(<<re.r>> \o rest)

\* Whether the character at position p lets a match with first characters f
\* begin there.
MayBegin(f, t, p) == f.any \/ (p <= Len(t) /\ t[p] \in f.cs)

RECURSIVE Run(_, _, _)
RECURSIVE RunAlt(_, _, _, _, _)
RECURSIVE RunRep(_, _, _, _)
RECURSIVE RunDown(_, _, _, _, _)
RECURSIVE MatchEach(_, _, _, _, _)
RECURSIVE MatchNext(_, _, _, _, _, _)

\* The first way in which the patterns of `todo` match one after the other
\* from state st, or NoMatch.
Run(todo, t, st) ==
    IF todo = <<>> THEN st
    ELSE LET re == Head(todo)
             rest == Tail(todo)
         IN  CASE re.k = "lit" ->
                    IF StartsAt(t, re.s, st.p)
                    THEN Run(rest, t, [st EXCEPT !.p = @ + Len(re.s)]) ELSE NoMatch
               [] re.k \in {"in", "notin", "any"} ->
                    IF st.p <= Len(t) /\ Takes(re, t[st.p])
                    THEN Run(rest, t, [st EXCEPT !.p = @ + 1]) ELSE NoMatch
               [] re.k = "wb" ->
                    IF AtBoundary(t, st.p) THEN Run(rest, t, st) ELSE NoMatch
               [] re.k = "grp" -> Run(<<re.r, EndGrp(re.n, st.p)>> \o rest, t, st)
               [] re.k = "endgrp" ->
                    Run(rest, t, [st EXCEPT !.g = SetGroup(@, re.n, <<re.from, st.p>>)])
               [] re.k = "cat" -> Run(re.rs \o rest, t, st)
               [] re.k = "alt" -> RunAlt(re.rs, 1, rest, t, st)
               [] re.k = "rep" -> RunRep(re, rest, t, st)
               [] re.k = "again" ->
                    \* a repetition that took nothing is not repeated
                    IF st.p = re.from THEN NoMatch
                    ELSE Run(<<Rep(re.r, re.lo, re.hi)>> \o rest, t, st)

\* The alternatives from left to right.
RunAlt(rs, i, rest, t, st) ==
    IF i > Len(rs) THEN NoMatch
    ELSE LET m == Run(<<rs[i]>> \o rest, t, st)
         IN  IF m # NoMatch THEN m ELSE RunAlt(rs, i + 1, rest, t, st)

\* The counts n, n - 1, ... lo of a repeat of a one-character pattern, until
\* the rest matches.
RunDown(n, lo, rest, t, st) ==
    IF n < lo THEN NoMatch
    ELSE LET m == Run(rest, t, [st EXCEPT !.p = @ + n])
         IN  IF m # NoMatch THEN m ELSE RunDown(n - 1, lo, rest, t, st)

\* Greedy: one more repetition is tried before stopping here.  A repeat of a
\* one-character pattern takes the longest run first, then gives back one
\* character at a time (a short run count by count, a long one by trying
\* every count and keeping the largest that matches: the same match).
RunRep(re, rest, t, st) ==
    IF re.r.k \in {"in", "notin", "any"}
    THEN LET last == IF re.hi = Inf \/ st.p + re.hi - 1 > Len(t) THEN Len(t)
                     ELSE st.p + re.hi - 1
             run == RunLength(re.r, t, st.p, last)
             first == FirstChars(rest)
             good == {n \in re.lo..run : /\ MayBegin(first, t, st.p + n)
                                         /\ Run(rest, t, [st EXCEPT !.p = @ + n]) # NoMatch}
         IN  IF run - re.lo <= 16 THEN RunDown(run, re.lo, rest, t, st)
             ELSE IF good = {} THEN NoMatch
             ELSE Run(rest, t, [st EXCEPT !.p = @ + CHOOSE n \in good : \A n2 \in good : n2 <= n])
    ELSE LET more == IF re.hi = 0 THEN NoMatch
                     ELSE Run(<<re.r, Again(re.r, IF re.lo > 0 THEN re.lo - 1 ELSE 0,
                                            IF re.hi = Inf THEN Inf ELSE re.hi - 1, st.p)>>
                              \o rest, t, st)
         IN  IF more # NoMatch THEN more
             ELSE IF re.lo <= 0 THEN Run(rest, t, st)
             ELSE NoMatch

Match(re, t, st) == Run(<<re>>, t, st)

\* re.search(pattern, text) is not None
Search(re, t) ==
    LET first == FirstChars(<<re>>)
    IN  \E p \in 1..(Len(t) + 1) : MayBegin(first, t, p) /\ Match(re, t, St(p)) # NoMatch

\* The non-overlapping matches from left to right, each as <<start, match
\* state>>: the scan goes on after a match, and by one character after an
\* empty one.
MatchEach(re, t, p, starts, acc) ==
    IF \A q \in starts : q < p THEN acc
    ELSE LET q == CHOOSE q \in starts : q >= p /\ \A q2 \in starts : q2 >= p => q <= q2
         IN  MatchNext(re, t, q, Match(re, t, St(q)), starts, acc)

\* The scan after the match m that begins at q.
MatchNext(re, t, q, m, starts, acc) ==
    MatchEach(re, t, IF m.p = q THEN q + 1 ELSE m.p, starts, Append(acc, <<q, m>>))

Matches(re, t) ==
    LET first == FirstChars(<<re>>)
        starts == {p \in 1..(Len(t) + 1) :
                      MayBegin(first, t, p) /\ Match(re, t, St(p)) # NoMatch}
    IN  MatchEach(re, t, 1, starts, <<>>)

\* The text of group k of match m ('' when the group took no part), and of
\* the whole match.
GroupText(t, m, k) ==
    IF k \in DOMAIN m[2].g THEN SubSeq(t, m[2].g[k][1], m[2].g[k][2] - 1) ELSE <<>>
WholeText(t, m) == SubSeq(t, m[1], m[2].p - 1)

\* What re.findall returns for the matches ms of a pattern with `groups`
\* groups: the whole matches (no group), the texts of group 1 (one group), or
\* the tuples of the texts of the groups (more).
Found(t, ms, groups) ==
    [i \in 1..Len(ms) |->
        IF groups = 0 THEN WholeText(t, ms[i])
        ELSE IF groups = 1 THEN GroupText(t, ms[i], 1)
        ELSE [k \in 1..groups |-> GroupText(t, ms[i], k)]]

\* re.findall(pattern, text)
FindAll(re, t, groups) == Found(t, Matches(re, t), groups)

(***************************************************************************)
(* The skill and pattern catalog (EnhancedResumeAnalyzer.__init__).  The   *)
(* skill lists are excerpts of the lists of the source, in source order.   *)
(***************************************************************************)

\* The characters of a string, each a string of length one.
Chars(s) == [i \in 1..Len(s) |-> SubSeq(s, i, i)]
S(s) == Chars(s)

RECURSIVE Dedupe(_, _)
\* list(dict.fromkeys(xs)): duplicates removed, first occurrences kept in order.
Dedupe(xs, seen) ==
    IF xs = <<>> THEN <<>>
    ELSE IF Head(xs) \in seen THEN Dedupe(Tail(xs), seen)
    ELSE <<Head(xs)>> \o Dedupe(Tail(xs), seen \cup {Head(xs)})

programming_languages == <<"python", "java", "javascript", "c++", "sql">>
frameworks_libraries  == <<"react">>
databases             == <<"mysql">>
cloud_devops          == <<"aws", "docker">>
tools_technologies    == <<"git">>
soft_skills           == <<"leadership", "communication", "teamwork", "mentoring">>
methodologies         == <<"agile", "compliance", "hipaa">>
\* An ordered dict: <<industry, its skills>> in insertion order.
industry_skills ==
    << <<"fintech",    <<"blockchain", "compliance">> >>,
       <<"healthcare", <<"hipaa", "telemedicine">> >>,
       <<"ai_ml",      <<"machine learning", "nlp">> >> >>

all_technical_skills ==
    Dedupe(programming_languages \o frameworks_libraries \o databases
           \o cloud_devops \o tools_technologies \o methodologies
           \o Flatten([i \in 1..Len(industry_skills) |-> industry_skills[i][2]]),
           {})

Digits == In(DigitSet)
Spaces == Star(In(SpaceSet))
\* (?:years?|yrs?)
Years == Alt(<<Cat(<<Lit(S("year")), Opt(Lit(S("s")))>>),
               Cat(<<Lit(S("yr")), Opt(Lit(S("s")))>>)>>)
\* (?:experience|exp)
Exp == Alt(<<Lit(S("experience")), Lit(S("exp"))>>)
\* (\d+)[\+]?
Count == Cat(<<Grp(Plus(Digits)), Opt(In({"+"}))>>)

experience_patterns ==
    << Cat(<<Count, Spaces, Years, Spaces, Opt(Cat(<<Lit(S("of")), Spaces>>)), Exp>>),
       Cat(<<Count, Spaces, Alt(<<Lit(S("year")), Lit(S("yr"))>>), Spaces, Exp>>),
       Cat(<<Lit(S("experience")), Star(In({":"} \cup SpaceSet)), Count, Spaces, Years>>),
       Cat(<<Count, Spaces, Years, Spaces,
             Alt(<<Lit(S("in")), Lit(S("with")), Lit(S("of"))>>)>>),
       Cat(<<Lit(S("over")), Spaces, Grp(Plus(Digits)), Spaces, Years>>),
       Cat(<<Lit(S("more than")), Spaces, Grp(Plus(Digits)), Spaces, Years>>) >>

\* \bword\b
Word(w) == Cat(<<WB, Lit(S(w)), WB>>)
\* \bword['s]?\b
WordS(w) == Cat(<<WB, Lit(S(w)), Opt(In({"'", "s"})), WB>>)

\* An ordered dict: <<level, its patterns>> in insertion order.
education_patterns ==
    << <<"phd",        <<Word("phd"), Word("ph.d"), Word("doctorate"), Word("doctoral")>> >>,
       <<"masters",    <<WordS("master"), Word("mba"), Word("ms"), Word("m.s"),
                         Word("ma"), Word("m.a"), Word("msc"), Word("m.sc")>> >>,
       <<"bachelors",  <<WordS("bachelor"), Word("bs"), Word("b.s"), Word("ba"),
                         Word("b.a"), Word("bsc"), Word("b.sc"), Word("btech"),
                         Word("b.tech")>> >>,
       <<"associates", <<WordS("associate"), Word("as"), Word("a.s"), Word("diploma")>> >> >>

EmailChars == LowerSet \cup UpperSet \cup DigitSet \cup {".", "_", "%", "+", "-"}
DomainChars == LowerSet \cup UpperSet \cup DigitSet \cup {".", "-"}
Sep == Opt(In({"-", "."} \cup SpaceSet))
NameChars == LowerSet \cup UpperSet \cup DigitSet \cup {"-"}

\* An ordered dict: <<field, pattern, the number of groups of the pattern>>.
contact_patterns ==
    << <<"email", Cat(<<WB, Plus(In(EmailChars)), In({"@"}), Plus(In(DomainChars)),
                        In({"."}), Rep(In(UpperSet \cup LowerSet \cup {"|"}), 2, Inf), WB>>),
         0>>,
       <<"phone", Cat(<<Opt(Grp(Cat(<<In({"+"}), Rep(Digits, 1, 3), Sep>>))),
                        Opt(In({"("})), Rep(Digits, 1, 4), Opt(In({")"})), Sep,
                        Rep(Digits, 1, 4), Sep, Rep(Digits, 1, 4), Sep, Rep(Digits, 1, 9)>>),
         1>>,
       <<"linkedin", Cat(<<Lit(S("linkedin.com/")), Opt(Lit(S("in/"))),
                           Grp(Plus(In(NameChars)))>>), 1>>,
       <<"github", Cat(<<Lit(S("github.com/")), Grp(Plus(In(NameChars)))>>), 1>> >>

\* An ordered dict: <<level, its indicators>> in insertion order.
job_level_patterns ==
    << <<"senior", <<"senior", "lead", "principal", "staff", "architect", "manager",
                     "director", "head of", "vp", "cto", "cio">> >>,
       <<"mid",    <<"mid-level", "intermediate", "experienced", "specialist", "analyst",
                     "developer", "engineer">> >>,
       <<"junior", <<"junior", "entry", "entry-level", "associate", "intern", "trainee",
                     "graduate", "assistant">> >> >>

\* The tables of the analyzer object: what __init__ builds.
Catalog ==
    [ all_technical_skills |-> all_technical_skills,
      soft_skills          |-> soft_skills,
      industry_skills      |-> industry_skills,
      experience_patterns  |-> experience_patterns,
      education_patterns   |-> education_patterns,
      contact_patterns     |-> contact_patterns,
      job_level_patterns   |-> job_level_patterns ]

\* A method that takes a skill off the list it reads: self.all_technical_skills.pop(0).
AfterCallPopping(self) ==
    [self EXCEPT !.all_technical_skills = Tail(@)]

\* The analyzer object after a method has run.  The statements that assign
\* an attribute of self or extend one of its lists are those of __init__ and
\* of the _build_ and _initialize_ helpers it calls; the public methods and
\* their helpers only read: `for skill in self.all_technical_skills`,
\* `self.education_patterns.items()`, `self.industry_skills.items()`, ...
AfterCall(self) == self

(***************************************************************************)
(* Numbers.  A Python number is the exact rational <<n, d>>, d > 0, in     *)
(* lowest terms.  The binary rounding of a float is left out, but for      *)
(* where it decides a result: round_float.                                 *)
(***************************************************************************)

Abs(n) == IF n < 0 THEN -n ELSE n
RECURSIVE GCD(_, _)
GCD(a, b) == IF b = 0 THEN a ELSE GCD(b, a % b)
Norm(n, d) == LET g == GCD(Abs(n), d) IN <<n \div g, d \div g>>
Num(n) == <<n, 1>>
Frac(n, d) == Norm(n, d)
Add(a, b) == Norm(a[1] * b[2] + b[1] * a[2], a[2] * b[2])
Sub(a, b) == Norm(a[1] * b[2] - b[1] * a[2], a[2] * b[2])
Mul(a, b) == LET x == Norm(a[1], b[2])
                 y == Norm(b[1], a[2])
             IN  Norm(x[1] * y[1], x[2] * y[2])
Lt(a, b) == a[1] * b[2] < b[1] * a[2]
Le(a, b) == a[1] * b[2] <= b[1] * a[2]
MaxQ(a, b) == IF Lt(a, b) THEN b ELSE a
MinQ(a, b) == IF Lt(b, a) THEN b ELSE a

\* round(x, 1): to the nearest tenth, a tie to the even tenth.
Round1(a) ==
    LET n10 == a[1] * 10
        f   == n10 \div a[2]
        r   == n10 - f * a[2]
        t   == IF 2 * r < a[2] THEN f
               ELSE IF 2 * r > a[2] THEN f + 1
               ELSE IF f % 2 = 0 THEN f ELSE f + 1
    IN  Norm(t, 10)

\* round(x, 1) of a float x that a sum of products has given.  The float of
\* a value halfway between two tenths lies on one side of it: `above` tells
\* which, and the tenth on that side is the result.
round_float(a, above) ==
    LET n10 == a[1] * 10
        f   == n10 \div a[2]
        r   == n10 - f * a[2]
    IN  IF 2 * r = a[2] THEN Norm(IF above THEN f + 1 ELSE f, 10) ELSE Round1(a)

(***************************************************************************)
(* Results of calls: a value, or an exception raised.                      *)
(***************************************************************************)

Return(v) == [raised |-> None, value |-> v]
Raise(e)  == [raised |-> e, value |-> None]

\* a / b
Div(a, b) == IF b[1] = 0 THEN Raise("ZeroDivisionError")
             ELSE Return(Norm(a[1] * b[2], a[2] * b[1]))

\* float(n) of an int n, as int - float and int * float make it.
ToFloat(n) == IF Abs(n) >= Huge
              THEN Raise("OverflowError: int too large to convert to float")
              ELSE Return(Num(n))

\* dict.get(key, default)
Get(d, key, default) == IF key \in DOMAIN d THEN d[key] ELSE default

\* The first exception among the results rs, in evaluation order, or None.
RECURSIVE FirstRaised(_)
FirstRaised(rs) ==
    IF rs = <<>> THEN None
    ELSE IF Head(rs).raised # None THEN Head(rs).raised
    ELSE FirstRaised(Tail(rs))

\* max(xs) and min(xs) of a list of int: ValueError on an empty list.
RECURSIVE MaxOf(_)
MaxOf(xs) == IF Len(xs) = 1 THEN xs[1]
             ELSE LET m == MaxOf(Tail(xs)) IN IF xs[1] >= m THEN xs[1] ELSE m
RECURSIVE MinOf(_)
MinOf(xs) == IF Len(xs) = 1 THEN xs[1]
             ELSE LET m == MinOf(Tail(xs)) IN IF xs[1] <= m THEN xs[1] ELSE m
Max(xs) == IF xs = <<>> THEN Raise("ValueError") ELSE Return(MaxOf(xs))
Min(xs) == IF xs = <<>> THEN Raise("ValueError") ELSE Return(MinOf(xs))

\* [x for x in xs if keep(x)]
Filter(xs, keep(_)) == SelectSeq(xs, keep)

\* sum(1 for x in xs if keep(x))
CountIf(xs, keep(_)) == Cardinality({i \in DOMAIN xs : keep(xs[i])})

(***************************************************************************)
(* Text analyzer: helper methods                                           *)
(***************************************************************************)

\* _analyze_skills: the catalog skills found as \bskill\b, in catalog order.
_analyze_skills(text) ==
    LET found(skill) == Search(Cat(<<WB, Lit(Lower(S(skill))), WB>>), text)
    IN  [ technical_skills |-> Filter(all_technical_skills, found),
          soft_skills      |-> Filter(soft_skills, found) ]

_categorize_experience_level(years) ==
    IF years >= 8 THEN "senior"
    ELSE IF years >= 3 THEN "mid-level"
    ELSE IF years >= 1 THEN "junior"
    ELSE "entry-level"

\* [int(match) for match in matches]: a match is a run of digits.
Ints(matches) == [i \in 1..Len(matches) |-> IntOf(matches[i])]

\* The int of every match of every pattern.
AllYears(patterns, text) ==
    Ints(Flatten([i \in 1..Len(patterns) |-> FindAll(patterns[i], text, 1)]))

\* max(years) if years else 0, and its level.
ExperienceOf(years) ==
    LET experience_years == IF years # <<>> THEN Max(years) ELSE Return(0)
    IN  IF experience_years.raised # None THEN experience_years
        ELSE Return([ experience_years |-> experience_years.value,
                      experience_level |->
                          _categorize_experience_level(experience_years.value) ])

_analyze_experience(text) == ExperienceOf(AllYears(experience_patterns, text))

\* The first level, in the order of education_patterns, one of whose patterns
\* is found (re.IGNORECASE: on the lower-cased text, the patterns being lower case).
RECURSIVE FirstLevel(_, _)
FirstLevel(levels, text) ==
    IF levels = <<>> THEN None
    ELSE IF \E i \in 1..Len(Head(levels)[2]) : Search(Head(levels)[2][i], Lower(text))
         THEN Head(levels)[1]
    ELSE FirstLevel(Tail(levels), text)

\* The education of a level found (None: none found).
EducationOf(education_level) ==
    LET education_score ==
            CASE education_level = "phd" -> 100
              [] education_level = "masters" -> 85
              [] education_level = "bachelors" -> 70
              [] education_level = "associates" -> 50
              [] OTHER -> 0
    IN  [ education_level |-> education_level, education_score |-> education_score ]

RECURSIVE LastLevel(_, _)
\* The last level of the levels with a pattern that is found.
LastLevel(levels, text) ==
    IF levels = <<>> THEN None
    ELSE IF \E i \in 1..Len(levels[Len(levels)][2]) :
                Search(levels[Len(levels)][2][i], Lower(text))
         THEN levels[Len(levels)][1]
    ELSE LastLevel(SubSeq(levels, 1, Len(levels) - 1), text)

\* The education of the lowest level found, not of the highest.
_analyze_education_lowest(text) == EducationOf(LastLevel(education_patterns, text))

_analyze_education(text) == EducationOf(FirstLevel(education_patterns, text))

\* _analyze_contact_info: a dict, here the sequence of its <<key, value>> items.
_analyze_contact_info(text) ==
    LET first(key, matches) == IF matches # <<>> THEN << <<key, matches[1]>> >> ELSE <<>>
        item(i) == first(contact_patterns[i][1],
                         FindAll(contact_patterns[i][2], text, contact_patterns[i][3]))
    IN  Flatten([i \in 1..Len(contact_patterns) |-> item(i)])

\* sorted(xs, key=key, reverse=True): stable, equal keys keep their order.
SortedDesc(xs, key(_)) ==
    LET rank(i) == Cardinality({j \in DOMAIN xs :
                        key(xs[j]) > key(xs[i]) \/ (key(xs[j]) = key(xs[i]) /\ j < i)}) + 1
    IN  [r \in 1..Len(xs) |-> xs[CHOOSE i \in DOMAIN xs : rank(i) = r]]

\* xs[:n]
Take(xs, n) == SubSeq(xs, 1, IF Len(xs) < n THEN Len(xs) ELSE n)

action_verbs ==
    <<"achieved", "administered", "analyzed", "architected", "automated", "built",
      "collaborated", "created", "delivered", "designed", "developed", "directed",
      "enhanced", "established", "executed", "implemented", "improved", "increased",
      "led", "managed", "optimized", "organized", "pioneered", "reduced", "resolved",
      "spearheaded", "streamlined">>

\* \d+(?:\.\d+)?(?:%|k|m|b|\$|...): the two currency signs outside ASCII are
\* not characters of the model.
QuantityPattern ==
    Cat(<<Plus(Digits), Opt(Cat(<<In({"."}), Plus(Digits)>>)), In({"%", "k", "m", "b", "$"})>>)

\* The quality metrics of a text with so many quantities and action verbs.
QualityOf(numbers_found, action_verb_count) ==
    LET quantification_score == IF numbers_found * 10 < 100 THEN numbers_found * 10 ELSE 100
        action_verb_score == IF action_verb_count * 5 < 100 THEN action_verb_count * 5 ELSE 100
        overall_quality == Add(Mul(Num(quantification_score), Frac(6, 10)),
                               Mul(Num(action_verb_score), Frac(4, 10)))
    IN  [ quantification_score |-> quantification_score,
          action_verb_score    |-> action_verb_score,
          overall_quality      |-> Round1(overall_quality),
          numbers_found        |-> numbers_found,
          action_verbs_found   |-> action_verb_count ]

_analyze_content_quality(text) ==
    LET has(verb) == Contains(Lower(text), S(verb))
    IN  QualityOf(Len(FindAll(QuantityPattern, Lower(text), 0)), CountIf(action_verbs, has))

stop_words ==
    <<"the", "and", "for", "are", "with", "this", "that", "have", "from", "they", "been",
      "will", "would", "could", "should", "may", "might", "must", "can", "shall">>

MaxKeywords == 20

\* _extract_advanced_keywords: the words of more than 3 letters that are no
\* stop words, the most frequent first and equally frequent ones in the order
\* of their first occurrence (Counter.most_common), at most 20.
MostCommon(filtered_words) ==
    LET freq(word) == Cardinality({i \in DOMAIN filtered_words : filtered_words[i] = word})
    IN  Take(SortedDesc(Dedupe(filtered_words, {}), freq), MaxKeywords)

_extract_advanced_keywords(text) ==
    LET stop == {S(stop_words[i]) : i \in DOMAIN stop_words}
        keep(word) == word \notin stop /\ Len(word) > 3
    IN  MostCommon(Filter(FindAll(Cat(<<WB, Rep(In(LowerSet \cup UpperSet), 3, Inf), WB>>),
                                  Lower(text), 0),
                          keep))

technology_words == <<"software", "developer", "engineer", "programming">>
finance_words    == <<"finance", "banking", "investment">>
healthcare_words == <<"healthcare", "medical", "hospital">>

\* any(word in text for word in words)
AnyIn(words, text) == \E i \in DOMAIN words : Contains(text, S(words[i]))

\* _detect_industry: the industry with the most keywords in the text, the
\* first such in the order of industry_skills; else the coarse buckets.
_detect_industry(text) ==
    LET score(i) == LET has(keyword) == Contains(text, S(keyword))
                    IN  CountIf(industry_skills[i][2], has)
        industry_scores == {i \in DOMAIN industry_skills : score(i) > 0}
    IN  IF industry_scores # {}
        THEN industry_skills[CHOOSE i \in industry_scores :
                 \A j \in industry_scores : score(j) < score(i) \/ (score(j) = score(i) /\ i <= j)][1]
        ELSE IF AnyIn(technology_words, text) THEN "technology"
        ELSE IF AnyIn(finance_words, text) THEN "finance"
        ELSE IF AnyIn(healthcare_words, text) THEN "healthcare"
        ELSE "general"

standard_sections == <<"experience", "education", "skills", "summary">>

\* The ATS score with the two limits of the length check counted in: 15
\* less up to 300 words, 5 less from 800.
_calculate_ats_compatibility_inclusive(text) ==
    LET has(section) == Contains(Lower(text), S(section))
        found_sections == CountIf(standard_sections, has)
        word_count == WordCount(text)
        score == 100 - (IF \E i \in DOMAIN text : text[i] = NonAscii THEN 10 ELSE 0)
                     - (IF word_count <= 300 THEN 15
                        ELSE IF word_count >= 800 THEN 5 ELSE 0)
    IN  MaxQ(Num(0), Num(score - (20 - 5 * found_sections)))

_calculate_ats_compatibility(text) ==
    LET score0 == 100
        \* non-ASCII characters
        score1 == IF \E i \in DOMAIN text : text[i] = NonAscii THEN score0 - 10 ELSE score0
        has(section) == Contains(Lower(text), S(section))
        found_sections == CountIf(standard_sections, has)
        section_score == Mul(Frac(found_sections, Len(standard_sections)), Num(20))
        word_count == WordCount(text)
        score2 == IF word_count < 300 THEN score1 - 15
                  ELSE IF word_count > 800 THEN score1 - 5
                  ELSE score1
    IN  MaxQ(Num(0), Sub(Num(score2), Sub(Num(20), section_score)))

required_experience_patterns ==
    << Cat(<<Count, Spaces, Years, Spaces, Opt(Cat(<<Lit(S("of")), Spaces>>)), Exp>>),
       Cat(<<Lit(S("minimum")), Spaces, Grp(Plus(Digits)), Spaces, Years>>),
       Cat(<<Lit(S("at least")), Spaces, Grp(Plus(Digits)), Spaces, Years>>),
       Cat(<<Count, Spaces, Alt(<<Lit(S("to")), In({"-"})>>), Spaces,
             GrpN(2, Plus(Digits)), Spaces, Years>>) >>

\* _extract_required_experience: the least number of years any pattern finds.
\* The first three patterns have one group, the last has two.
_extract_required_experience(text) ==
    LET one(i) == FindAll(required_experience_patterns[i], text, 1)
        isdigit(m) == m # <<>>
        both(two) == Flatten([i \in 1..Len(two) |-> Filter(two[i], isdigit)])
        least(years) == IF years # <<>> THEN Min(years) ELSE Return(0)
    IN  least(Ints(one(1) \o one(2) \o one(3)
                   \o both(FindAll(required_experience_patterns[4], text, 2))))

\* str.title() of the three level names.
Title(level) == CASE level = "senior" -> "Senior"
                  [] level = "mid" -> "Mid"
                  [] level = "junior" -> "Junior"

RECURSIVE FirstJobLevel(_, _)
FirstJobLevel(levels, text) ==
    IF levels = <<>> THEN "Mid-level"
    ELSE IF AnyIn(Head(levels)[2], text) THEN Title(Head(levels)[1])
    ELSE FirstJobLevel(Tail(levels), text)

_determine_job_level(text) == FirstJobLevel(job_level_patterns, text)

\* word.*required
Required(word) == Cat(<<Lit(S(word)), Star(Dot), Lit(S("required"))>>)

_extract_education_requirements(text) ==
    IF Search(Alt(<<Required("phd"), Required("doctorate")>>), text) THEN "phd"
    ELSE IF Search(Alt(<<Required("master"), Required("mba")>>), text) THEN "masters"
    ELSE IF Search(Alt(<<Required("bachelor"), Required("degree")>>), text) THEN "bachelors"
    ELSE None

remote_terms == <<"remote", "work from home", "distributed", "telecommute">>

_analyze_job_requirements(text) ==
    LET requirements(required_experience) ==
            IF required_experience.raised # None THEN required_experience
            ELSE Return([ experience_required |-> required_experience.value,
                          job_level           |-> _determine_job_level(text),
                          education_required  |-> _extract_education_requirements(text),
                          remote_friendly     |-> AnyIn(remote_terms, text) ])
    IN  requirements(_extract_required_experience(text))

\* An ordered dict: <<size, its indicators>> in insertion order.
size_indicators ==
    << <<"startup", <<"startup", "early stage", "seed", "series a">> >>,
       <<"small",   <<"small", "growing", "10-50", "50-100">> >>,
       <<"medium",  <<"medium", "100-500", "500-1000">> >>,
       <<"large",   <<"large", "enterprise", "1000+", "fortune">> >> >>

RECURSIVE FirstSize(_, _)
FirstSize(sizes, text) ==
    IF sizes = <<>> THEN "unknown"
    ELSE IF AnyIn(Head(sizes)[2], text) THEN Head(sizes)[1]
    ELSE FirstSize(Tail(sizes), text)

_analyze_company_info(text) ==
    [ company_size       |-> FirstSize(size_indicators, Lower(text)),
      is_remote_friendly |-> Contains(Lower(text), S("remote")) ]

urgent_indicators      == <<"urgent", "immediate", "asap", "immediately", "right away">>
competitive_indicators == <<"competitive", "multiple candidates", "fast-paced", "dynamic">>

_analyze_job_urgency(text) ==
    [ urgent_hire          |-> AnyIn(urgent_indicators, text),
      competitive_position |-> AnyIn(competitive_indicators, text) ]

\* \b(?:a|b|c)\b
OneOf(words) == Cat(<<WB, Alt([i \in DOMAIN words |-> Lit(S(words[i]))]), WB>>)
must_words   == <<"required", "must have", "essential">>
bonus_words  == <<"preferred", "nice to have", "bonus">>

\* sum(xs) of numbers
RECURSIVE Sum(_)
Sum(xs) == IF xs = <<>> THEN Num(0) ELSE Add(Head(xs), Sum(Tail(xs)))

_calculate_job_complexity(text) ==
    LET complexity_factors ==
            << Num(Len(FindAll(OneOf(must_words), Lower(text), 0))),
               Num(Len(FindAll(OneOf(bonus_words), Lower(text), 0))),
               Num(Len(FindAll(Cat(<<WB, Years, WB>>), Lower(text), 0))),
               Frac(WordCount(text), 50) >>
    IN  MinQ(Num(100), Mul(Sum(complexity_factors), Num(10)))

(***************************************************************************)
(* Text analyzer: the two public methods                                   *)
(***************************************************************************)

\* The floor both methods put on the length of the stripped text.
MinTextLen == 50

\* The test without the trimming: blanks around a text would count.
TooShortUntrimmed(text) == text = None \/ text = <<>> \/ Len(text) < MinTextLen

\* `not text or len(text.strip()) < 50`; a text is a str or None.
TooShort(text) == text = None \/ text = <<>> \/ Len(Strip(text)) < MinTextLen

\* len([x for x in text.split(sep) if x.strip()])
RECURSIVE CountPieces(_, _)
CountPieces(t, sep) ==
    IF \E i \in 1..Len(t) : StartsAt(t, sep, i)
    THEN LET i == CHOOSE i \in 1..Len(t) : StartsAt(t, sep, i) /\ \A j \in 1..(i - 1) : ~StartsAt(t, sep, j)
         IN  (IF Strip(SubSeq(t, 1, i - 1)) # <<>> THEN 1 ELSE 0)
             + CountPieces(SubSeq(t, i + Len(sep), Len(t)), sep)
    ELSE IF Strip(t) # <<>> THEN 1 ELSE 0

analyze_resume(text) ==
    IF TooShort(text)
    THEN Raise("ValueError: Resume text is too short or empty for meaningful analysis")
    ELSE
    LET resume_lower == Lower(text)
        analysis(skills_analysis, experience_analysis, education_analysis) ==
            IF experience_analysis.raised # None THEN experience_analysis
            ELSE Return(
              [ word_count        |-> WordCount(text),
                character_count   |-> Len(text),
                line_count        |-> CountPieces(text, <<"\n">>),
                paragraph_count   |-> CountPieces(text, <<"\n", "\n">>),
                technical_skills  |-> skills_analysis.technical_skills,
                soft_skills       |-> skills_analysis.soft_skills,
                experience_years  |-> experience_analysis.value.experience_years,
                experience_level  |-> experience_analysis.value.experience_level,
                education_level   |-> education_analysis.education_level,
                education_score   |-> education_analysis.education_score,
                contact_info      |-> _analyze_contact_info(text),
                quality_metrics   |-> _analyze_content_quality(text),
                keywords          |-> _extract_advanced_keywords(text),
                detected_industry |-> _detect_industry(resume_lower),
                ats_compatibility_score |-> _calculate_ats_compatibility(text) ])
    IN  analysis(_analyze_skills(resume_lower), _analyze_experience(resume_lower),
                 _analyze_education(resume_lower))

analyze_job_description(text) ==
    IF TooShort(text)
    THEN Raise("ValueError: Job description is too short for meaningful analysis")
    ELSE
    LET job_lower == Lower(text)
        analysis(skills_analysis, requirements_analysis, company_analysis, urgency_analysis) ==
            IF requirements_analysis.raised # None THEN requirements_analysis
            ELSE Return(
              [ technical_skills     |-> skills_analysis.technical_skills,
                soft_skills          |-> skills_analysis.soft_skills,
                experience_required  |-> requirements_analysis.value.experience_required,
                job_level            |-> requirements_analysis.value.job_level,
                education_required   |-> requirements_analysis.value.education_required,
                remote_friendly      |-> requirements_analysis.value.remote_friendly,
                company_size         |-> company_analysis.company_size,
                is_remote_friendly   |-> company_analysis.is_remote_friendly,
                urgent_hire          |-> urgency_analysis.urgent_hire,
                competitive_position |-> urgency_analysis.competitive_position,
                keywords             |-> _extract_advanced_keywords(text),
                industry             |-> _detect_industry(job_lower),
                job_complexity_score |-> _calculate_job_complexity(text) ])
    IN  analysis(_analyze_skills(job_lower), _analyze_job_requirements(job_lower),
                 _analyze_company_info(text), _analyze_job_urgency(job_lower))

(***************************************************************************)
(* Match scorer                                                            *)
(***************************************************************************)

\* The experience score with 1.5 times the requirement taken in whole years.
_calculate_experience_score_whole(resume_exp, required_exp) ==
    IF required_exp = 0 THEN Return(Num(100))
    ELSE IF resume_exp >= required_exp
    THEN IF resume_exp <= (required_exp * 3) \div 2 THEN Return(Num(100))
         ELSE Return(MaxQ(Num(70),
                          Num(100 - (resume_exp - (required_exp * 3) \div 2) * 5)))
    ELSE Return(MaxQ(Num(0), Num(100 - (required_exp - resume_exp) * 20)))

\* The experience score without the floor of 0 below the requirement.
_calculate_experience_score_unfloored(resume_exp, required_exp) ==
    IF required_exp = 0 THEN Return(Num(100))
    ELSE IF resume_exp >= required_exp
    THEN IF Le(Num(resume_exp), Frac(required_exp * 3, 2)) THEN Return(Num(100))
         ELSE Return(MaxQ(Num(70),
                          Sub(Num(100),
                              Mul(Sub(Num(resume_exp), Frac(required_exp * 3, 2)), Num(5)))))
    ELSE Return(Num(100 - (required_exp - resume_exp) * 20))

\* _calculate_experience_score.  required_exp * 1.5 is the float of
\* required_exp times 1.5; resume_exp <= that compares the int with the float
\* exactly; resume_exp - that is the float of resume_exp minus it.
_calculate_experience_score(resume_exp, required_exp) ==
    IF required_exp = 0 THEN Return(Num(100))
    ELSE IF resume_exp >= required_exp
    THEN \* full marks up to 1.5 times the requirement, then a penalty
         LET required == ToFloat(required_exp)
             limit == Mul(required.value, Frac(3, 2))
             years == ToFloat(resume_exp)
         IN  IF required.raised # None THEN required
             ELSE IF Le(Num(resume_exp), limit) THEN Return(Num(100))
             ELSE IF years.raised # None THEN years
             ELSE Return(MaxQ(Num(70),
                              Sub(Num(100), Mul(Sub(years.value, limit), Num(5)))))
    ELSE LET gap == required_exp - resume_exp
         IN  Return(MaxQ(Num(0), Sub(Num(100), Num(gap * 20))))

\* `not x` of a str or None
Not(x) == x = None \/ x = ""

\* education_levels.get(level, 0)
education_levels(level) ==
    CASE level = "associates" -> 1
      [] level = "bachelors" -> 2
      [] level = "masters" -> 3
      [] level = "phd" -> 4
      [] OTHER -> 0

\* The education score that gives full marks only above the required level.
_calculate_education_score_strict(resume_edu, required_edu) ==
    IF Not(required_edu) THEN Num(100)
    ELSE IF education_levels(resume_edu) > education_levels(required_edu) THEN Num(100)
    ELSE IF education_levels(resume_edu) = education_levels(required_edu) - 1 THEN Num(75)
    ELSE IF education_levels(resume_edu) = education_levels(required_edu) - 2 THEN Num(50)
    ELSE Num(25)

_calculate_education_score(resume_edu, required_edu) ==
    IF Not(required_edu) THEN Num(100)
    ELSE LET resume_level == education_levels(resume_edu)
             required_level == education_levels(required_edu)
         IN  IF resume_level >= required_level THEN Num(100)
             ELSE IF resume_level = required_level - 1 THEN Num(75)
             ELSE IF resume_level = required_level - 2 THEN Num(50)
             ELSE Num(25)

\* related_industries.get(industry, [])
related_industries(industry) ==
    CASE industry = "technology" -> {"fintech", "ai_ml", "iot"}
      [] industry = "healthcare" -> {"fintech"}
      [] industry = "finance" -> {"fintech"}
      [] OTHER -> {}

\* The industry score that looks the resume's industry up among those related
\* to the job's.
_calculate_industry_alignment_reversed(resume_industry, job_industry) ==
    IF Not(job_industry) \/ Not(resume_industry) THEN Num(70)
    ELSE IF resume_industry = job_industry THEN Num(100)
    ELSE IF resume_industry \in related_industries(job_industry) THEN Num(80)
    ELSE Num(50)

_calculate_industry_alignment(resume_industry, job_industry) ==
    IF Not(job_industry) \/ Not(resume_industry) THEN Num(70)
    ELSE IF resume_industry = job_industry THEN Num(100)
    ELSE IF job_industry \in related_industries(resume_industry) THEN Num(80)
    ELSE Num(50)

_categorize_match_strength(score) ==
    IF Le(Num(85), score) THEN "excellent"
    ELSE IF Le(Num(70), score) THEN "good"
    ELSE IF Le(Num(50), score) THEN "fair"
    ELSE "poor"

\* skill_importance.get(skill, 3)
skill_importance(skill) ==
    CASE skill \in {"python", "java", "javascript"} -> 10
      [] skill \in {"react", "aws", "sql"} -> 9
      [] skill \in {"git", "docker", "kubernetes", "node.js"} -> 8
      [] skill \in {"angular", "vue", "django", "flask", "spring"} -> 7
      [] skill \in {"html", "css"} -> 5
      [] skill = "bootstrap" -> 4
      [] OTHER -> 3

MaxSkillGaps == 5

\* _identify_top_skill_gaps.  missing_skills is a set in the source; here it
\* is the sequence in which the set is iterated, which sorted() starts from.
_identify_top_skill_gaps(missing_skills, job) ==
    IF missing_skills = <<>> THEN <<>>
    ELSE Take(SortedDesc(missing_skills, skill_importance), MaxSkillGaps)

\* The orders in which a set can be iterated.
Orders(set) ==
    {order \in [1..Cardinality(set) -> set] : \A x \in set : \E i \in DOMAIN order : order[i] = x}

\* The share of the skills of both sides, not of the job's, that are matched.
OverlapOfUnion(a, b, default) ==
    IF b # {} THEN Return(Frac(100 * Cardinality(a \cap b), Cardinality(a \cup b)))
    ELSE Return(Num(default))

\* len(a & b) / len(b) * 100 if b else default
Overlap(a, b, default) ==
    IF b # {} THEN LET ratio == Div(Num(Cardinality(a \cap b)), Num(Cardinality(b)))
                   IN  IF ratio.raised # None THEN ratio
                       ELSE Return(Mul(ratio.value, Num(100)))
    ELSE Return(Num(default))

tech_score(resume, job) ==
    Overlap(Range(Get(resume, "technical_skills", <<>>)),
            Range(Get(job, "technical_skills", <<>>)), 100)

soft_score(resume, job) ==
    Overlap(Range(Get(resume, "soft_skills", <<>>)),
            Range(Get(job, "soft_skills", <<>>)), 100)

\* The keyword score with the default of the skill scores.
keyword_score_vacuous(resume, job) ==
    Overlap(Range(Get(resume, "keywords", <<>>)),
            Range(Get(job, "keywords", <<>>)), 100)

keyword_score(resume, job) ==
    Overlap(Range(Get(resume, "keywords", <<>>)),
            Range(Get(job, "keywords", <<>>)), 0)

exp_score(resume, job) ==
    _calculate_experience_score(Get(resume, "experience_years", 0),
                                Get(job, "experience_required", 0))

education_score(resume, job) ==
    _calculate_education_score(Get(resume, "education_level", None),
                               Get(job, "education_required", None))

industry_score(resume, job) ==
    _calculate_industry_alignment(Get(resume, "detected_industry", None),
                                  Get(job, "industry", None))

\* The ATS factor by a division in whole numbers: 1 at 100, 0 below.
ats_factor_whole(resume) ==
    Num(Get(resume, "ats_compatibility_score", Num(0))[1]
        \div (Get(resume, "ats_compatibility_score", Num(0))[2] * 100))

\* resume_analysis.get('ats_compatibility_score', 0) / 100
ats_factor(resume) == Mul(Get(resume, "ats_compatibility_score", Num(0)), Frac(1, 100))

weights ==
    [ technical |-> Frac(35, 100), soft_skills |-> Frac(15, 100),
      experience |-> Frac(20, 100), education |-> Frac(10, 100),
      industry |-> Frac(10, 100), keywords |-> Frac(10, 100) ]

\* The weighted score of the dimension scores as they are reported: rounded.
weighted_score_rounded(tech, soft, exp, keyword, resume, job) ==
    Add(Add(Add(Mul(Round1(tech), weights.technical), Mul(Round1(soft), weights.soft_skills)),
            Add(Mul(Round1(exp), weights.experience),
                Mul(Round1(education_score(resume, job)), weights.education))),
        Add(Mul(Round1(industry_score(resume, job)), weights.industry),
            Mul(Round1(keyword), weights.keywords)))

\* weighted_score, given the four scores whose computation can raise
weighted_score(tech, soft, exp, keyword, resume, job) ==
    Add(Add(Add(Mul(tech, weights.technical), Mul(soft, weights.soft_skills)),
            Add(Mul(exp, weights.experience),
                Mul(education_score(resume, job), weights.education))),
        Add(Mul(industry_score(resume, job), weights.industry),
            Mul(keyword, weights.keywords)))

\* final_score: the weighted score with the ATS compatibility factor applied
final_score(weighted, resume) ==
    Mul(weighted, Add(Frac(7, 10), Mul(Frac(3, 10), ats_factor(resume))))

\* calculate_advanced_match_score.  tech_order and soft_order are the orders
\* in which the sets of missing technical and soft skills are iterated.  The
\* other lists made from sets are kept as sets: their order is never read.
\* `above` is the side of a half on which the float of final_score lies.
calculate_advanced_match_score(resume, job, tech_order, soft_order, above) ==
    LET resume_tech == Range(Get(resume, "technical_skills", <<>>))
        job_tech    == Range(Get(job, "technical_skills", <<>>))
        resume_soft == Range(Get(resume, "soft_skills", <<>>))
        job_soft    == Range(Get(job, "soft_skills", <<>>))
        tech_matches == resume_tech \cap job_tech
        soft_matches == resume_soft \cap job_soft
        tech == tech_score(resume, job)
        soft == soft_score(resume, job)
        resume_exp == Get(resume, "experience_years", 0)
        required_exp == Get(job, "experience_required", 0)
        keyword_matches == Range(Get(resume, "keywords", <<>>))
                           \cap Range(Get(job, "keywords", <<>>))
        keyword == keyword_score(resume, job)
        exp == exp_score(resume, job)
        failed == FirstRaised(<<tech, soft, exp, keyword>>)
        weighted == weighted_score(tech.value, soft.value, exp.value, keyword.value,
                                   resume, job)
        final == final_score(weighted, resume)
    IN  IF failed # None THEN Raise(failed)
        ELSE Return(
          [ overall_score      |-> round_float(final, above),
            technical_score    |-> Round1(tech.value),
            soft_skills_score  |-> Round1(soft.value),
            experience_score   |-> Round1(exp.value),
            education_score    |-> Round1(education_score(resume, job)),
            industry_score     |-> Round1(industry_score(resume, job)),
            keyword_score      |-> Round1(keyword.value),
            ats_compatibility_score |->
                Round1(Get(resume, "ats_compatibility_score", Num(0))),
            matched_technical_skills |-> tech_matches,
            missing_technical_skills |-> tech_order,
            matched_soft_skills      |-> soft_matches,
            missing_soft_skills      |-> soft_order,
            matched_keywords         |-> keyword_matches,
            matched_skills           |-> tech_matches \cup soft_matches,
            experience_gap     |-> IF required_exp - resume_exp > 0
                                   THEN required_exp - resume_exp ELSE 0,
            experience_surplus |-> IF resume_exp - required_exp > 0
                                   THEN resume_exp - required_exp ELSE 0,
            match_strength     |-> _categorize_match_strength(final),
            top_skill_gaps     |-> _identify_top_skill_gaps(tech_order, job),
            scoring_weights    |-> weights ])

(***************************************************************************)
(* Suggestion engine.  A message is its fixed text, named by `kind`, and   *)
(* the values formatted into it.                                           *)
(***************************************************************************)

Msg(kind, args) == [kind |-> kind, args |-> args]

universal_suggestions ==
    << Msg("universal: use specific metrics and numbers", <<>>),
       Msg("universal: start bullet points with strong action verbs", <<>>),
       Msg("universal: customize your Professional Summary", <<>>),
       Msg("universal: mobile-friendly, prints correctly", <<>>),
       Msg("universal: consistent formatting", <<>>) >>

MaxSuggestions == 10

\* The message of each stage: a sequence of no or one message (two for the
\* stage of the experience level, which has two independent tests).
Stage1(overall_score) ==
    IF Lt(overall_score, Num(40)) THEN <<Msg("CRITICAL", <<>>)>> ELSE <<>>

\* The stage of the technical skills with the limit at 2 skills, not at 3.
Stage2_above_two(match, missing_tech) ==
    IF missing_tech # <<>>
    THEN LET top_missing == Get(match, "top_skill_gaps", Take(missing_tech, 5))
         IN  IF Len(top_missing) > 2
             THEN <<Msg("HIGH PRIORITY", Take(top_missing, 3))>>
             ELSE <<Msg("TECHNICAL SKILLS", top_missing)>>
    ELSE <<>>

Stage2(match, missing_tech) ==
    IF missing_tech # <<>>
    THEN LET top_missing == Get(match, "top_skill_gaps", Take(missing_tech, 5))
         IN  IF Len(top_missing) > 3
             THEN <<Msg("HIGH PRIORITY", Take(top_missing, 3))>>
             ELSE <<Msg("TECHNICAL SKILLS", top_missing)>>
    ELSE <<>>

\* The stage of the experience level whose second test reads the gap where
\* the surplus is meant.
Stage3_gap_twice(match) ==
    LET exp_gap == Get(match, "experience_gap", 0)
    IN  (IF exp_gap > 2 THEN <<Msg("EXPERIENCE GAP", <<exp_gap>>)>>
         ELSE IF exp_gap > 0 THEN <<Msg("transferable skills", <<exp_gap>>)>>
         ELSE <<>>)
        \o (IF exp_gap > 5 THEN <<Msg("overqualified", <<>>)>> ELSE <<>>)

Stage3(match) ==
    LET exp_gap == Get(match, "experience_gap", 0)
        exp_surplus == Get(match, "experience_surplus", 0)
    IN  (IF exp_gap > 2 THEN <<Msg("EXPERIENCE GAP", <<exp_gap>>)>>
         ELSE IF exp_gap > 0 THEN <<Msg("transferable skills", <<exp_gap>>)>>
         ELSE <<>>)
        \o (IF exp_surplus > 5 THEN <<Msg("overqualified", <<>>)>> ELSE <<>>)

Stage4(missing_soft) ==
    IF missing_soft # <<>> /\ Len(missing_soft) > 2
    THEN <<Msg("SOFT SKILLS", Take(missing_soft, 3))>>
    ELSE <<>>

Stage5(match) ==
    IF Lt(Get(match, "ats_compatibility_score", Num(0)), Num(70))
    THEN <<Msg("ATS COMPATIBILITY", <<>>)>> ELSE <<>>

Stage6(resume) ==
    LET quality_score == Get(Get(resume, "quality_metrics", <<>>), "overall_quality", Num(0))
    IN  IF Lt(quality_score, Num(70)) THEN <<Msg("CONTENT QUALITY", <<>>)>> ELSE <<>>

Stage7(match) ==
    IF Lt(Get(match, "keyword_score", Num(0)), Num(60))
    THEN <<Msg("KEYWORDS", <<>>)>> ELSE <<>>

Stage8(match, resume, job) ==
    LET detected_industry == Get(resume, "detected_industry", None)
        job_industry == Get(job, "industry", None)
    IN  IF /\ Lt(Get(match, "industry_score", Num(0)), Num(70))
           /\ ~Not(detected_industry) /\ ~Not(job_industry)
           /\ detected_industry # job_industry
        THEN <<Msg("INDUSTRY FOCUS", <<job_industry>>)>> ELSE <<>>

Stage9(match, job) ==
    LET required_edu == Get(job, "education_required", None)
    IN  IF Lt(Get(match, "education_score", Num(0)), Num(80)) /\ ~Not(required_edu)
        THEN <<Msg("EDUCATION", <<required_edu>>)>> ELSE <<>>

Stage10(match_strength) ==
    IF match_strength = "poor" THEN <<Msg("STRATEGY", <<>>)>>
    ELSE IF match_strength = "fair" THEN <<Msg("OPTIMIZATION", <<>>)>>
    ELSE IF match_strength = "good" THEN <<Msg("FINE-TUNING", <<>>)>>
    ELSE <<Msg("EXCELLENT MATCH", <<>>)>>

\* Two universal suggestions, not three.
Stage11_two == Take(universal_suggestions, 2)

Stage11 == Take(universal_suggestions, 3)

\* The messages of stages 1 to 10, before the universal ones are added.
StageMessages(match, resume, job) ==
    Stage1(match.overall_score)
    \o Stage2(match, match.missing_technical_skills)
    \o Stage3(match)
    \o Stage4(match.missing_soft_skills)
    \o Stage5(match) \o Stage6(resume) \o Stage7(match)
    \o Stage8(match, resume, job) \o Stage9(match, job)
    \o Stage10(match.match_strength)

\* match_analysis[key] of the four keys read without a default
RequiredKeys ==
    <<"overall_score", "match_strength", "missing_technical_skills", "missing_soft_skills">>

\* The suggestions without the cut to the first 10.
generate_advanced_suggestions_uncut(match, resume, job) ==
    IF \E i \in DOMAIN RequiredKeys : RequiredKeys[i] \notin DOMAIN match
    THEN Raise("KeyError")
    ELSE Return(StageMessages(match, resume, job) \o Stage11)

\* The suggestions with the universal ones put first.
generate_advanced_suggestions_universal_first(match, resume, job) ==
    IF \E i \in DOMAIN RequiredKeys : RequiredKeys[i] \notin DOMAIN match
    THEN Raise("KeyError")
    ELSE Return(Take(Stage11 \o StageMessages(match, resume, job), MaxSuggestions))

generate_advanced_suggestions(match, resume, job) ==
    IF \E i \in DOMAIN RequiredKeys : RequiredKeys[i] \notin DOMAIN match
    THEN Raise("KeyError")
    ELSE Return(Take(StageMessages(match, resume, job) \o Stage11, MaxSuggestions))

(***************************************************************************)
(* The texts the analysis is run on                                        *)
(***************************************************************************)

\* The largest number of blanks put on each side of a text.
MaxMargin == 1

RECURSIVE Join(_)
\* ' '.join(words), as characters
Join(words) ==
    IF words = <<>> THEN <<>>
    ELSE IF Len(words) = 1 THEN S(words[1])
    ELSE S(words[1]) \o <<" ">> \o Join(Tail(words))

\* n characters that are no letters, digits or blanks.
Filler(n) == [i \in 1..n |-> "."]

\* A number of more digits than the largest float has.
LongNumber == [i \in 1..FloatDigits + 1 |-> "9"]

resume_bodies ==
    { <<>>,
      Join(<<"python", "sql">>),
      Join(<<"python", "sql", "leadership", "5", "years", "of", "experience",
             "bachelor", "skills", "software">>),
      Join(<<"phd", "bachelor", "8", "years", "of", "experience", "blockchain",
             "increased", "40%">>),
      LongNumber \o <<" ">> \o Join(<<"years", "of", "experience", "python">>),
      Join(<<"developer", "in", "c++", "and", "javascript", "with", "mysql">>),
      Join(<<"used", "c++11", "and", "reactive", "streams", "in", "java">>) }

job_bodies ==
    { <<>>,
      Join(<<"python", "sql", "aws">>),
      Join(<<"python", "sql", "aws", "3", "years", "of", "experience",
             "bachelor", "degree", "required">>),
      Join(<<"senior", "intern", "teamwork", "communication", "mentoring", "hipaa",
             "master", "required", "5", "to", "7", "years">>) }

\* The body, filled up to `length` characters, between `margin` blanks.
TextOf(body, length, margin) ==
    LET blanks == [i \in 1..margin |-> " "]
    IN  blanks \o body \o Filler(length - Len(body)) \o blanks

TextLengths == {0, MinTextLen - 1, MinTextLen}

Texts(bodies) ==
    {TextOf(b, n, m) : b \in bodies, n \in TextLengths, m \in 0..MaxMargin}

resume_texts == Texts(resume_bodies)
job_texts    == Texts(job_bodies)

(***************************************************************************)
(* SimpleAnalyzer: the wrapper with the simple method names                *)
(***************************************************************************)

\* A wrapper that does not catch: the exception of analyze_job_description
\* reaches the caller.
analyze_job_propagating(text) == analyze_job_description(text)

\* SimpleAnalyzer.analyze_job: analyze_job_description, and on any exception
\* the fallback basic analysis.
analyze_job(text) ==
    LET result == analyze_job_description(text)
    IN  IF result.raised = None THEN result
        ELSE Return([ technical_skills    |-> <<>>,
                      soft_skills         |-> <<>>,
                      keywords            |-> <<>>,
                      experience_required |-> 0,
                      job_level           |-> "Mid-level" ])

(***************************************************************************)
(* The analysis pipeline: the calls a caller makes, in the order of        *)
(* upload_resume: the resume, the job, the score, the suggestions.  An     *)
(* exception of a call reaches the caller and ends the run.                *)
(***************************************************************************)

\* The result of each method on each text of the model.
resume_results == [text \in resume_texts |-> analyze_resume(text)]
job_description_results == [text \in job_texts |-> analyze_job_description(text)]
job_results == [text \in job_texts |-> analyze_job(text)]

\* No upload_resume request is running, no AI collaborator is there.
NoUpload ==
    /\ ai_services_active = FALSE
    /\ perplexity_insights = None
    /\ enhanced_suggestions = None
    /\ ai_enhanced = None
    /\ ai_warning = None
    /\ response = None
    /\ files = {}
    /\ file_path = None
    /\ generated_resumes = None
    /\ served = None
    /\ strength = None

Init ==
    /\ pc = "start"
    /\ resume_text = None
    /\ job_description = None
    /\ resume_analysis = None
    /\ job_analysis = None
    /\ match_analysis = None
    /\ basic_suggestions = None
    /\ raised = None
    /\ call = None
    /\ catalog = Catalog
    /\ NoUpload

\* The caller after a call: it holds the value, or the exception has ended it.
Outcome(result, next) ==
    /\ raised' = result.raised
    /\ pc' = IF result.raised = None THEN next ELSE "failed"

AnalyzeResume ==
    /\ pc = "start"
    /\ \E text \in resume_texts :
         /\ resume_text' = text
         /\ resume_analysis' = resume_results[text].value
         /\ Outcome(resume_results[text], "resume_analyzed")
    /\ call' = "analyze_resume"
    /\ UNCHANGED <<job_description, job_analysis, match_analysis, basic_suggestions>>
    /\ catalog' = AfterCall(catalog)
    /\ UNCHANGED upload_vars

AnalyzeJobDescription ==
    /\ pc = "resume_analyzed"
    /\ \E text \in job_texts :
         /\ job_description' = text
         /\ job_analysis' = job_description_results[text].value
         /\ Outcome(job_description_results[text], "job_analyzed")
    /\ call' = "analyze_job_description"
    /\ UNCHANGED <<resume_text, resume_analysis, match_analysis, basic_suggestions>>
    /\ catalog' = AfterCall(catalog)
    /\ UNCHANGED upload_vars

AnalyzeJob ==
    /\ pc = "resume_analyzed"
    /\ \E text \in job_texts :
         /\ job_description' = text
         /\ job_analysis' = job_results[text].value
         /\ Outcome(job_results[text], "job_analyzed")
    /\ call' = "analyze_job"
    /\ UNCHANGED <<resume_text, resume_analysis, match_analysis, basic_suggestions>>
    /\ catalog' = AfterCall(catalog)
    /\ UNCHANGED upload_vars

\* The skills of the job the resume lacks: job - resume of the two lists.
Missing(key) ==
    Range(Get(job_analysis, key, <<>>)) \ Range(Get(resume_analysis, key, <<>>))

CalculateAdvancedMatchScore ==
    /\ pc = "job_analyzed"
    /\ \E tech_order \in Orders(Missing("technical_skills")),
          soft_order \in Orders(Missing("soft_skills")),
          above \in BOOLEAN :
         LET result == calculate_advanced_match_score(resume_analysis, job_analysis,
                                                      tech_order, soft_order, above)
         IN  /\ match_analysis' = result.value
             /\ Outcome(result, "scored")
    /\ call' = "calculate_advanced_match_score"
    /\ UNCHANGED <<resume_text, job_description, resume_analysis, job_analysis,
                   basic_suggestions>>
    /\ catalog' = AfterCall(catalog)
    /\ UNCHANGED upload_vars

GenerateAdvancedSuggestions ==
    /\ pc = "scored"
    /\ LET result == generate_advanced_suggestions(match_analysis, resume_analysis,
                                                   job_analysis)
       IN  /\ basic_suggestions' = result.value
           /\ Outcome(result, "done")
    /\ call' = "generate_advanced_suggestions"
    /\ UNCHANGED <<resume_text, job_description, resume_analysis, job_analysis,
                   match_analysis>>
    /\ catalog' = AfterCall(catalog)
    /\ UNCHANGED upload_vars

Next ==
    \/ AnalyzeResume
    \/ AnalyzeJobDescription
    \/ AnalyzeJob
    \/ CalculateAdvancedMatchScore
    \/ GenerateAdvancedSuggestions

Spec == Init /\ [][Next]_vars

\* main.py: `analyzer = EnhancedResumeAnalyzer()` is made once, and every
\* caller uses it.  The next caller begins wherever the last one stopped;
\* nothing of the last caller is left but the analyzer.
NextCaller ==
    /\ pc # "start"
    /\ pc' = "start"
    /\ resume_text' = None
    /\ job_description' = None
    /\ resume_analysis' = None
    /\ job_analysis' = None
    /\ match_analysis' = None
    /\ basic_suggestions' = None
    /\ raised' = None
    /\ call' = None
    /\ UNCHANGED <<catalog, upload_vars>>

NextCalls ==
    \/ Next
    \/ NextCaller

\* The pipeline, run again and again on the one analyzer.
SpecCalls == Init /\ [][NextCalls]_vars

(***************************************************************************)
(* The scorer on Facts: the score and the suggestions of pairs of Facts    *)
(* records that hold the fields the scorer reads, with the values the      *)
(* analyzer gives them.                                                    *)
(***************************************************************************)

\* The largest number of years of experience of the Facts.
MaxYears == 8

some_technical == {"python", "sql", "aws"}
some_soft == {"leadership", "teamwork"}
some_words == {S("data"), S("cloud")}
levels == {None, "associates", "bachelors", "masters", "phd"}
industries == {"fintech", "healthcare", "ai_ml", "technology", "finance", "general"}

\* The values of _calculate_ats_compatibility: 100, less 10 for a character
\* that is not ASCII, less 15 or 5 for the length, less 5 for each standard
\* section that is not found.
ats_scores ==
    {Num(100 - nonascii - length - (20 - 5 * found)) :
        nonascii \in {0, 10}, length \in {0, 5, 15}, found \in 0..4}

\* list(a set): the elements in one order.
RECURSIVE ListOf(_)
ListOf(set) ==
    IF set = {} THEN <<>>
    ELSE LET x == CHOOSE x \in set : TRUE IN <<x>> \o ListOf(set \ {x})

\* What the scorer reads of the Facts of a resume and of a job.
ResumeFacts(p) ==
    [ technical_skills |-> ListOf(p.tech),
      soft_skills      |-> ListOf(p.soft),
      keywords         |-> ListOf(p.words),
      experience_years |-> p.years,
      experience_level |-> _categorize_experience_level(p.years),
      education_level  |-> p.education,
      detected_industry |-> p.industry,
      quality_metrics  |-> [overall_quality |-> Num(0)],
      ats_compatibility_score |-> p.ats ]

JobFacts(p) ==
    [ technical_skills    |-> ListOf(p.tech),
      soft_skills         |-> ListOf(p.soft),
      keywords            |-> ListOf(p.words),
      experience_required |-> p.years,
      education_required  |-> p.education,
      industry            |-> p.industry ]

base_resume ==
    [ tech |-> {"python", "sql"}, soft |-> {"leadership"}, words |-> {S("data")},
      years |-> 5, education |-> "bachelors", industry |-> "technology",
      ats |-> Num(80) ]

base_job ==
    [ tech |-> some_technical, soft |-> some_soft, words |-> some_words,
      years |-> 3, education |-> "bachelors", industry |-> "fintech" ]

\* The pairs that differ from the base pair in one field.
Vary(field, resume_values, job_values) ==
    { [resume |-> [base_resume EXCEPT ![field] = r], job |-> [base_job EXCEPT ![field] = j]] :
        r \in resume_values, j \in job_values }

\* Pairs of values of one field, for the pairs that differ in every field.
few_tech == {<<{}, some_technical>>, <<{"python", "sql"}, some_technical>>, <<{"python"}, {}>>}
few_soft == {<<{}, some_soft>>, <<{"leadership"}, some_soft>>}
few_words == {<<{}, some_words>>, <<some_words, {}>>, <<some_words, some_words>>}
few_years == {<<0, MaxYears>>, <<MaxYears, 5>>, <<4, 4>>}
few_education == {<<None, "phd">>, <<"masters", "bachelors">>}
few_industry == {<<"general", "fintech">>, <<"finance", "fintech">>}
few_ats == {Num(55), Num(95), Num(100)}

mixed_pairs ==
    { [ resume |-> [ tech |-> t[1], soft |-> s[1], words |-> w[1], years |-> y[1],
                     education |-> e[1], industry |-> i[1], ats |-> a ],
        job    |-> [ tech |-> t[2], soft |-> s[2], words |-> w[2], years |-> y[2],
                     education |-> e[2], industry |-> i[2] ] ] :
        t \in few_tech, s \in few_soft, w \in few_words, y \in few_years,
        e \in few_education, i \in few_industry, a \in few_ats }

\* Pairs whose final score lies less than 0.05 below the start of a bucket of
\* the match strength: 69.99 (below 70) and 49.955 (below 50).
edge_pairs ==
    { [ resume |-> [ tech |-> {"python"}, soft |-> some_soft, words |-> some_words,
                     years |-> 7, education |-> "bachelors", industry |-> "fintech",
                     ats |-> Num(75) ],
        job    |-> [ tech |-> some_technical, soft |-> some_soft, words |-> some_words,
                     years |-> 4, education |-> "bachelors", industry |-> "fintech" ] ],
      [ resume |-> [ tech |-> {"python"}, soft |-> {}, words |-> some_words,
                     years |-> 1, education |-> "bachelors", industry |-> "fintech",
                     ats |-> Num(90) ],
        job    |-> [ tech |-> {"python", "sql"}, soft |-> some_soft, words |-> some_words,
                     years |-> 5, education |-> "bachelors", industry |-> "fintech" ] ] }

\* Pairs of a resume that lacks what the job asks for: more technical skills
\* than top_skill_gaps keeps, and more than two soft skills with every other
\* test of the suggestion engine failed as well.
gap_pairs ==
    { [ resume |-> [base_resume EXCEPT !.tech = {}],
        job    |-> [base_job EXCEPT
                       !.tech = {"python", "sql", "aws", "docker", "git", "react"}] ],
      [ resume |-> [ tech |-> {"python"}, soft |-> {}, words |-> {},
                     years |-> 0, education |-> None, industry |-> "general",
                     ats |-> Num(55) ],
        job    |-> [ tech |-> {"python", "sql"},
                     soft |-> {"leadership", "communication", "teamwork"},
                     words |-> some_words, years |-> MaxYears, education |-> "phd",
                     industry |-> "fintech" ] ] }

score_pairs ==
    Vary("tech", SUBSET some_technical, SUBSET some_technical)
    \cup Vary("soft", SUBSET some_soft, SUBSET some_soft)
    \cup Vary("words", SUBSET some_words, SUBSET some_words)
    \cup Vary("years", 0..MaxYears \cup {Huge}, 0..MaxYears)
    \cup Vary("education", levels, levels)
    \cup Vary("industry", industries \cup {None}, industries \cup {None})
    \cup {[resume |-> [base_resume EXCEPT !.ats = a], job |-> base_job] : a \in ats_scores}
    \cup mixed_pairs
    \cup edge_pairs
    \cup gap_pairs

InitScore ==
    /\ pc = "job_analyzed"
    /\ resume_text = None
    /\ job_description = None
    /\ \E pair \in score_pairs :
         /\ resume_analysis = ResumeFacts(pair.resume)
         /\ job_analysis = JobFacts(pair.job)
    /\ match_analysis = None
    /\ basic_suggestions = None
    /\ raised = None
    /\ call = None
    /\ catalog = Catalog
    /\ NoUpload

NextScore ==
    \/ CalculateAdvancedMatchScore
    \/ GenerateAdvancedSuggestions

SpecScore == InitScore /\ [][NextScore]_vars

\* SimpleAnalyzer.get_match_strength; SimpleAnalyzer is the analyzer with
\* simple method names added.
get_match_strength(score) ==
    IF Le(Num(85), score) THEN "excellent"
    ELSE IF Le(Num(70), score) THEN "good"
    ELSE IF Le(Num(50), score) THEN "fair"
    ELSE "needs_improvement"

\* The caller of a SimpleAnalyzer asks for the category of the overall score
\* that calculate_advanced_match_score returned.
GetMatchStrength ==
    /\ pc = "scored"
    /\ strength' = get_match_strength(match_analysis.overall_score)
    /\ call' = "get_match_strength"
    /\ pc' = "categorized"
    /\ UNCHANGED <<resume_text, job_description, resume_analysis, job_analysis,
                   match_analysis, basic_suggestions, raised, catalog,
                   ai_services_active, perplexity_insights, enhanced_suggestions,
                   ai_enhanced, ai_warning, response, files, file_path,
                   generated_resumes, served>>

NextSimple ==
    \/ NextScore
    \/ GetMatchStrength

SpecSimple == InitScore /\ [][NextSimple]_vars

(***************************************************************************)
(* The ATS compatibility score of a resume text: the step of               *)
(* analyze_resume that computes it, on texts of few and of many words.     *)
(***************************************************************************)

\* The numbers of words around the two limits of the length check.
word_counts == {4, 299, 300, 301, 800, 801}

\* n words of one letter, after the words given.
Padded(words, n) ==
    Join(words) \o [i \in 1..2 * (n - Len(words)) |-> IF i % 2 = 1 THEN " " ELSE "x"]

\* A resume of n words that has the section headings `sections` and, with
\* `accent`, a character that is not ASCII.
AtsText(sections, n, accent) ==
    Padded(SelectSeq(standard_sections, LAMBDA section : section \in sections), n)
    \o (IF accent THEN <<NonAscii>> ELSE <<>>)

ats_texts ==
    { AtsText(sections, n, accent) :
        sections \in SUBSET Range(standard_sections), n \in word_counts,
        accent \in BOOLEAN }

InitAts ==
    /\ pc = "resume_read"
    /\ resume_text \in ats_texts
    /\ job_description = None
    /\ resume_analysis = None
    /\ job_analysis = None
    /\ match_analysis = None
    /\ basic_suggestions = None
    /\ raised = None
    /\ call = None
    /\ catalog = Catalog
    /\ NoUpload

\* 'ats_compatibility_score': self._calculate_ats_compatibility(resume_text)
CalculateAtsCompatibility ==
    /\ pc = "resume_read"
    /\ resume_analysis' =
           [ats_compatibility_score |-> _calculate_ats_compatibility(resume_text)]
    /\ pc' = "ats_calculated"
    /\ call' = "_calculate_ats_compatibility"
    /\ UNCHANGED <<resume_text, job_description, job_analysis, match_analysis,
                   basic_suggestions, raised>>
    /\ catalog' = AfterCall(catalog)
    /\ UNCHANGED upload_vars

NextAts == CalculateAtsCompatibility

SpecAts == InitAts /\ [][NextAts]_vars

(***************************************************************************)
(* upload_resume of main.py: the request that validates its inputs, reads  *)
(* the text of the PDF, runs the four methods of the analyzer, merges the  *)
(* suggestions of the AI collaborator if there is one, and responds.       *)
(***************************************************************************)

\* The least number of characters of a job description, and of the text of
\* the PDF of a resume.
MinJobLen == 50
MinResumeLen == 100

\* raise HTTPException(status_code=..., detail=f"..."): the detail is the
\* sequence of the pieces of the f-string.
HTTPException(status_code, detail) == [status_code |-> status_code, detail |-> detail]

\* `not text or len(text.strip()) < n`
Insufficient(text, n) == text = None \/ text = <<>> \/ Len(Strip(text)) < n

\* re.sub(c + '+', c, t): every run of the character c becomes one c.
Squeeze(t, c) ==
    LET after == [i \in 1..Len(t) |-> <<t[i], IF i = 1 THEN "" ELSE t[i - 1]>>]
        kept == SelectSeq(after, LAMBDA pair : ~(pair[1] = c /\ pair[2] = c))
    IN  <<>> \o [i \in 1..Len(kept) |-> kept[i][1]]

\* PDFExtractor._clean_text
_clean_text(text) ==
    IF text = <<>> THEN <<>> ELSE Strip(Squeeze(Squeeze(text, "\n"), " "))

\* PDFExtractor.extract_text of a file whose pages have the text `text` (the
\* empty text if neither library can read the file).
extract_text(text) ==
    LET cleaned_text == _clean_text(text)
    IN  IF Strip(cleaned_text) = <<>>
        THEN Raise("Could not extract text from PDF: No readable text found in PDF")
        ELSE Return(cleaned_text)

\* The file names of the model: none, one that is no PDF, a PDF.
filenames == {"", "resume.docx", "Resume.PDF"}

\* filename.lower().endswith('.pdf')
IsPdf(filename) ==
    LET name == Lower(S(filename))
    IN  Len(name) >= 4 /\ SubSeq(name, Len(name) - 3, Len(name)) = S(".pdf")

\* The page texts of the PDFs of the model: the resume bodies, filled up to
\* no, to one below the least and to the least number of characters.
page_texts ==
    {TextOf(b, n, m) : b \in resume_bodies, n \in {0, MinResumeLen - 1, MinResumeLen},
                       m \in 0..MaxMargin}

\* The texts the extractor makes of them.
extracted_texts ==
    {extract_text(text).value : text \in {t \in page_texts : extract_text(t).raised = None}}

\* The results of the analyzer on the texts of the requests.
extracted_results == [text \in extracted_texts |-> analyze_resume(text)]

\* A value of the JSON the AI answers: a list, or a str where a list was
\* asked for.
JsonList(items) == [type |-> "list", value |-> items]
JsonStr(text) == [type |-> "str", value |-> S(text)]

\* The action items of the AI, as many as asked for.
AiItems(n) == [i \in 1..n |-> Msg("ai: action item", <<i>>)]

\* What the request to the AI comes to: an exception of the request or of the
\* reading of the answer, an answer that is not status 200 or holds no JSON,
\* or the JSON object of the answer.
ai_answers ==
    { [kind |-> "exception"], [kind |-> "no json"] }
    \cup { [kind |-> "json", data |-> [recommended_action_items |-> JsonList(AiItems(n))]] :
             n \in {0, 1, 5, 6} }
    \cup { [kind |-> "json", data |-> [recommended_action_items |-> JsonStr("more keywords")]],
           [kind |-> "json", data |-> [overall_assessment |-> JsonStr("good")]] }

\* dict[key] = value
SetItem(d, key, value) ==
    [k \in DOMAIN d \cup {key} |-> IF k = key THEN value ELSE d[k]]

\* PerplexityJobAnalyzer.enhance_resume_analysis: the JSON of the answer, or
\* one of its two lists of general advice.
enhance_resume_analysis(answer) ==
    CASE answer.kind = "json" ->
           SetItem(answer.data, "enhancement_method", JsonStr("perplexity_ai"))
      [] answer.kind = "no json" ->
           [ recommended_action_items |->
                 JsonList(<< Msg("fallback: add more quantified achievements with specific numbers", <<>>),
                             Msg("fallback: include relevant technical keywords", <<>>),
                             Msg("fallback: optimize for ATS compatibility", <<>>),
                             Msg("fallback: highlight transferable skills", <<>>),
                             Msg("fallback: use industry-specific terminology", <<>>) >>),
             enhancement_method |-> JsonStr("fallback") ]
      [] answer.kind = "exception" ->
           [ recommended_action_items |->
                 JsonList(<< Msg("error: add more quantified achievements", <<>>),
                             Msg("error: include relevant keywords from job posting", <<>>),
                             Msg("error: use ATS-friendly formatting", <<>>),
                             Msg("error: highlight key accomplishments", <<>>) >>),
             error |-> JsonStr("exception") ]

\* The merge that puts the AI items first.
CombineAiFirst(basic, insights) ==
    LET ai_suggestions == Get(insights, "recommended_action_items", JsonList(<<>>))
    IN  IF ai_suggestions.value = <<>> THEN [raised |-> None, value |-> basic, merged |-> FALSE]
        ELSE IF ai_suggestions.type # "list"
        THEN [raised |-> "TypeError: can only concatenate list (not \"str\") to list",
              value |-> basic, merged |-> FALSE]
        ELSE [raised |-> None, value |-> Take(ai_suggestions.value, 5) \o basic,
              merged |-> TRUE]

\* "Combine suggestions": ai_suggestions = perplexity_insights.get(
\* 'recommended_action_items', []); if ai_suggestions: enhanced_suggestions =
\* basic_suggestions + ai_suggestions[:5]; ai_enhanced = True.  An exception
\* leaves enhanced_suggestions and ai_enhanced as they were set before.
Combine(basic, insights) ==
    LET ai_suggestions == Get(insights, "recommended_action_items", JsonList(<<>>))
    IN  IF ai_suggestions.value = <<>> THEN [raised |-> None, value |-> basic, merged |-> FALSE]
        ELSE IF ai_suggestions.type # "list"
        THEN [raised |-> "TypeError: can only concatenate list (not \"str\") to list",
              value |-> basic, merged |-> FALSE]
        ELSE [raised |-> None, value |-> basic \o Take(ai_suggestions.value, 5),
              merged |-> TRUE]

\* datetime.now().strftime("%Y%m%d_%H%M%S") of the request.  The model follows
\* the files that carry this timestamp in their names.
timestamp == "20240101_120000"

\* file_path = f"uploads/resumes/{timestamp}_{file.filename}"
UploadPath(file_filename) == "uploads/resumes/" \o timestamp \o "_" \o file_filename

\* The file name of a request that passed Step 1.
UploadedName == CHOOSE file_filename \in filenames : file_filename # "" /\ IsPdf(file_filename)

available_templates == {"ats_modern", "tech_focused", "classic_professional"}

\* The template field of the form.
templates == {"ats_modern", "classic_professional", "two_column"}

\* Step 1, Validate template selection
SelectedTemplate(template) ==
    IF template \notin available_templates THEN "ats_modern" ELSE template

\* HTMLResumeGenerator.output_dir
output_dir == "uploads/optimized"

\* What becomes of one call of generate_resume: the PDF of
\* _create_professional_pdf, the text of _create_optimized_text, or an
\* exception when not even _create_fallback_resume can write.
makes == {"professional", "optimized", "OSError"}

\* HTMLResumeGenerator.generate_resume, as far as its caller sees it: the
\* file it wrote, named after the template and the timestamp.
generate_resume(template_name, made) ==
    IF made = "OSError" THEN Raise(made)
    ELSE LET name == made \o "_" \o template_name \o "_resume_" \o timestamp
                          \o (IF made = "professional" THEN ".pdf" ELSE ".txt")
         IN  Return([filename |-> name, pdf_path |-> output_dir \o "/" \o name])

\* The HTML generator of the process and what its calls make of each
\* template during the request.  html_generator is None when the generator
\* could not be initialised, and then it makes nothing.
generator_runs ==
    {[html_generator |-> FALSE, made |-> [t \in available_templates |-> "OSError"]]}
    \cup {[html_generator |-> TRUE, made |-> made] :
            made \in {made \in [available_templates -> makes] :
                        /\ made["classic_professional"] # "optimized"
                        /\ \A t \in available_templates :
                             made[t] = "optimized" => made["ats_modern"] = "optimized"}}

\* template.replace('_', ' ').title()
LayoutName(template) ==
    CASE template = "ats_modern" -> "Ats Modern"
      [] template = "tech_focused" -> "Tech Focused"
      [] template = "classic_professional" -> "Classic Professional"

\* {**resume, 'is_primary': ..., 'layout_name': ..., 'generation_type': ...}
GeneratedResume(resume, is_primary, layout_name, generation_type) ==
    [filename |-> resume.filename, pdf_path |-> resume.pdf_path,
     is_primary |-> is_primary, layout_name |-> layout_name,
     generation_type |-> generation_type]

\* alt_templates = [t for t in ['ats_modern', 'tech_focused'] if t != template]
alt_templates(template) ==
    SelectSeq(<<"ats_modern", "tech_focused">>, LAMBDA t : t # template)

\* Alternatives with every alternative marked as the primary resume.
AlternativesAsPrimary(template, run) ==
    LET made == SelectSeq(Take(alt_templates(template), 2),
                          LAMBDA t : generate_resume(t, run.made[t]).raised = None)
    IN  <<>> \o [i \in 1..Len(made) |->
                   GeneratedResume(generate_resume(made[i], run.made[made[i]]).value,
                                   TRUE, LayoutName(made[i]), "html_to_pdf")]

\* for alt_template in alt_templates[:2]: the alternatives that were generated
Alternatives(template, run) ==
    LET made == SelectSeq(Take(alt_templates(template), 2),
                          LAMBDA t : generate_resume(t, run.made[t]).raised = None)
    IN  <<>> \o [i \in 1..Len(made) |->
                   GeneratedResume(generate_resume(made[i], run.made[made[i]]).value,
                                   FALSE, LayoutName(made[i]), "html_to_pdf")]

\* Step 6, the part with the HTML generator: generated_resumes as the part
\* leaves it, and the exception it raises to the fallback.
HtmlGeneration(template, run) ==
    IF ~run.html_generator
    THEN [raised |-> "HTML generator not initialized", generated_resumes |-> <<>>]
    ELSE LET primary_resume == generate_resume(template, run.made[template])
         IN  IF primary_resume.raised # None
             THEN [raised |-> "HTML generation failed", generated_resumes |-> <<>>]
             ELSE [raised |-> None,
                   generated_resumes |->
                       <<GeneratedResume(primary_resume.value, TRUE,
                                         LayoutName(template), "html_to_pdf")>>
                       \o Alternatives(template, run)]

\* create_comprehensive_fallback_resume: the text file it writes
basic_resume ==
    LET name == "comprehensive_resume_" \o timestamp \o ".txt"
    IN  [filename |-> name, pdf_path |-> "uploads/optimized/" \o name]

\* The minimal analysis report of Step 6.
analysis_report ==
    LET name == "analysis_report_" \o timestamp \o ".txt"
    IN  [filename |-> name, pdf_path |-> "uploads/optimized/" \o name]

\* pdf_path of every resume of a list
PathsOf(resumes) == {resumes[i].pdf_path : i \in 1..Len(resumes)}

\* Step 6: Professional HTML/CSS Resume Generation.  `uploaded` is file_path
\* as Step 2 set it; fallback_written and report_written tell whether the
\* text fallback and the analysis report could be written.  The result holds
\* generated_resumes, generation_method and file_path as Step 6 leaves them,
\* the files written, and the exception that leaves Step 6.
GenerateResumes(template, run, fallback_written, report_written, uploaded) ==
    LET html == HtmlGeneration(template, run)
    IN  IF html.raised = None
        THEN [generated_resumes |-> html.generated_resumes,
              generation_method |-> "html_to_pdf_success",
              file_path |-> uploaded,
              written |-> PathsOf(html.generated_resumes),
              raised |-> None]
        ELSE IF fallback_written
        THEN [generated_resumes |->
                  html.generated_resumes
                  \o <<GeneratedResume(basic_resume, TRUE, "Text Format", "fallback")>>,
              generation_method |-> "fallback_text",
              file_path |-> uploaded,
              written |-> {basic_resume.pdf_path},
              raised |-> None]
        ELSE IF report_written
        THEN [generated_resumes |->
                  <<GeneratedResume(analysis_report, TRUE, "Analysis Report",
                                    "emergency_fallback")>>,
              generation_method |-> "emergency_fallback",
              file_path |-> analysis_report.pdf_path,
              written |-> {analysis_report.pdf_path},
              raised |-> None]
        ELSE [generated_resumes |-> html.generated_resumes,
              generation_method |-> "html_to_pdf",
              file_path |-> analysis_report.pdf_path,
              written |-> {},
              raised |-> "OSError"]

\* if os.path.exists(file_path): os.remove(file_path)
Removed(existing, path) == existing \ {path}

\* next((r for r in generated_resumes if r.get('is_primary')), generated_resumes[0])
PrimaryOf(resumes) ==
    LET primaries == SelectSeq(resumes, LAMBDA r : r.is_primary)
    IN  IF primaries # <<>> THEN primaries[1] ELSE resumes[1]

\* templates.TemplateResponse("result.html", template_data), Step 8
TemplateResponse(suggestions, enhanced, insights, resumes, generation_method) ==
    [status_code |-> 200, suggestions |-> suggestions, ai_enhanced |-> enhanced,
     ai_insights |-> insights, generated_resumes |-> resumes,
     primary_resume |-> PrimaryOf(resumes),
     download_link |-> "/download/" \o PrimaryOf(resumes).filename,
     generation_method |-> generation_method]

InitUpload ==
    /\ pc = "received"
    /\ job_description \in job_texts
    /\ ai_services_active \in BOOLEAN
    /\ resume_text = None
    /\ resume_analysis = None
    /\ job_analysis = None
    /\ match_analysis = None
    /\ basic_suggestions = None
    /\ raised = None
    /\ call = None
    /\ catalog = Catalog
    /\ perplexity_insights = None
    /\ enhanced_suggestions = None
    /\ ai_enhanced = None
    /\ ai_warning = None
    /\ response = None
    /\ files = {}
    /\ file_path = None
    /\ generated_resumes = None
    /\ served = None
    /\ strength = None

\* The request goes on to `next`, or ends with the exception raised: `raises`
\* is the sequence of no or one exception.
Rejected(raises, next) ==
    /\ response' = IF raises = <<>> THEN None ELSE raises[1]
    /\ pc' = IF raises = <<>> THEN next ELSE "rejected"

\* Step 1: Validate inputs
ValidateInputs ==
    /\ pc = "received"
    /\ \E filename \in filenames :
         Rejected(IF filename = ""
                  THEN <<HTTPException(400, <<"No file uploaded">>)>>
                  ELSE IF ~IsPdf(filename)
                  THEN <<HTTPException(400, <<"Only PDF files are supported. Please convert your resume to PDF format.">>)>>
                  ELSE IF Insufficient(job_description, MinJobLen)
                  THEN <<HTTPException(400, <<"Job description is too short (minimum 50 characters required)">>)>>
                  ELSE <<>>,
                  "validated")
    /\ UNCHANGED <<resume_text, job_description, resume_analysis, job_analysis,
                   match_analysis, basic_suggestions, raised, call, catalog,
                   ai_services_active, perplexity_insights, enhanced_suggestions,
                   ai_enhanced, ai_warning, files, file_path, generated_resumes,
                   served, strength>>

\* Step 2: Handle file upload.  The file is read and saved, is above 10MB,
\* or cannot be saved.
HandleFileUpload ==
    /\ pc = "validated"
    /\ \E outcome \in {"saved", "too large", "OSError"} :
         /\ Rejected(CASE outcome = "saved" -> <<>>
                       [] outcome = "too large" ->
                            <<HTTPException(400, <<"File too large: ", "10.1", "MB (maximum 10MB allowed)">>)>>
                       [] outcome = "OSError" ->
                            <<HTTPException(500, <<"File upload failed: ", outcome>>)>>,
                     "saved")
         /\ file_path' = IF outcome = "too large" THEN file_path
                         ELSE UploadPath(UploadedName)
         /\ files' = IF outcome = "saved" THEN files \cup {UploadPath(UploadedName)}
                     ELSE files
    /\ UNCHANGED <<resume_text, job_description, resume_analysis, job_analysis,
                   match_analysis, basic_suggestions, raised, call, catalog,
                   ai_services_active, perplexity_insights, enhanced_suggestions,
                   ai_enhanced, ai_warning, generated_resumes, served, strength>>

\* except Exception as e: raise HTTPException(status_code=400, ...) of Step 3
PdfProcessingFailed(e) ==
    HTTPException(400, <<"PDF processing failed: ", e,
                         ". Please ensure your PDF contains selectable text.">>)

\* Step 3: Extract text from PDF.  When the step fails, the uploaded file is
\* removed before the exception is raised.
ExtractText ==
    /\ pc = "saved"
    /\ \E text \in page_texts :
         LET result == extract_text(text)
             failed == result.raised # None \/ Insufficient(result.value, MinResumeLen)
         IN  /\ resume_text' = result.value
             /\ Rejected(IF result.raised # None THEN <<PdfProcessingFailed(result.raised)>>
                         ELSE IF Insufficient(result.value, MinResumeLen)
                         THEN <<PdfProcessingFailed("PDF contains insufficient readable text. Please ensure your PDF is not a scanned image.")>>
                         ELSE <<>>,
                         "extracted")
             /\ files' = IF failed THEN Removed(files, file_path) ELSE files
    /\ UNCHANGED <<job_description, resume_analysis, job_analysis, match_analysis,
                   basic_suggestions, raised, call, catalog, ai_services_active,
                   perplexity_insights, enhanced_suggestions, ai_enhanced, ai_warning,
                   file_path, generated_resumes, served, strength>>

\* Step 4: resume_analysis = analyzer.analyze_resume(resume_text)
AnalyzeResumeText ==
    /\ pc = "extracted"
    /\ resume_analysis' = extracted_results[resume_text].value
    /\ Outcome(extracted_results[resume_text], "resume_analyzed")
    /\ call' = "analyze_resume"
    /\ catalog' = AfterCall(catalog)
    /\ UNCHANGED <<resume_text, job_description, job_analysis, match_analysis,
                   basic_suggestions>>
    /\ UNCHANGED upload_vars

\* Step 4: job_analysis = analyzer.analyze_job_description(job_description)
AnalyzeJobText ==
    /\ pc = "resume_analyzed"
    /\ job_analysis' = job_description_results[job_description].value
    /\ Outcome(job_description_results[job_description], "job_analyzed")
    /\ call' = "analyze_job_description"
    /\ catalog' = AfterCall(catalog)
    /\ UNCHANGED <<resume_text, job_description, resume_analysis, match_analysis,
                   basic_suggestions>>
    /\ UNCHANGED upload_vars

\* Step 4, except Exception as e: the exception of one of the four calls;
\* the uploaded file is removed before the exception is raised.
AnalysisFailed ==
    /\ pc = "failed"
    /\ response' = HTTPException(500, <<"Resume analysis failed: ", raised,
                                        ". Please try again with a different PDF.">>)
    /\ files' = Removed(files, file_path)
    /\ pc' = "rejected"
    /\ UNCHANGED <<resume_text, job_description, resume_analysis, job_analysis,
                   match_analysis, basic_suggestions, raised, call, catalog,
                   ai_services_active, perplexity_insights, enhanced_suggestions,
                   ai_enhanced, ai_warning, file_path, generated_resumes, served, strength>>

\* The AI step after the answer of the AI: what it leaves in
\* perplexity_insights, enhanced_suggestions, ai_enhanced and the log.
AiStep(insights, combined) ==
    /\ perplexity_insights' = insights
    /\ enhanced_suggestions' = combined.value
    /\ ai_enhanced' = combined.merged
    /\ ai_warning' = combined.raised

\* Step 5: AI Enhancement (if available)
AiEnhancement ==
    /\ pc = "done"
    /\ IF ai_services_active
       THEN \E answer \in ai_answers :
              AiStep(enhance_resume_analysis(answer),
                     Combine(basic_suggestions, enhance_resume_analysis(answer)))
       ELSE /\ perplexity_insights' = <<>>
            /\ enhanced_suggestions' = basic_suggestions
            /\ ai_enhanced' = FALSE
            /\ ai_warning' = None
    /\ pc' = "enhanced"
    /\ UNCHANGED <<resume_text, job_description, resume_analysis, job_analysis,
                   match_analysis, basic_suggestions, raised, call, catalog,
                   ai_services_active, response, files, file_path,
                   generated_resumes, served, strength>>

\* Steps 6 to 8 after the generation: the clean-up of Step 7 removes the file
\* that file_path names now, and Step 8 returns the result page.  When the
\* generation raised, the handler of the whole request removes the file that
\* file_path names and answers with status 500.
Finish(generation) ==
    /\ generated_resumes' = generation.generated_resumes
    /\ file_path' = generation.file_path
    /\ files' = Removed(files \cup generation.written, generation.file_path)
    /\ IF generation.raised = None
       THEN /\ response' = TemplateResponse(enhanced_suggestions, ai_enhanced,
                                            perplexity_insights,
                                            generation.generated_resumes,
                                            generation.generation_method)
            /\ pc' = "responded"
       ELSE /\ response' = HTTPException(500, <<"Resume analysis failed: ",
                                                generation.raised,
                                                ". Please try again or contact support.">>)
            /\ pc' = "rejected"

\* Steps 6 to 8: the resume files are generated, the temporary file is
\* cleaned up and the result page is returned.  The template of the form is
\* drawn here, where the request reads it.  The text fallback and the
\* analysis report are written or not, when the request comes to them.
Respond ==
    /\ pc = "enhanced"
    /\ \E template \in templates, run \in generator_runs :
         IF HtmlGeneration(SelectedTemplate(template), run).raised = None
         THEN Finish(GenerateResumes(SelectedTemplate(template), run, TRUE, TRUE,
                                     file_path))
         ELSE \E written \in {<<TRUE, TRUE>>, <<FALSE, TRUE>>, <<FALSE, FALSE>>} :
                Finish(GenerateResumes(SelectedTemplate(template), run, written[1],
                                       written[2], file_path))
    /\ UNCHANGED <<resume_text, job_description, resume_analysis, job_analysis,
                   match_analysis, basic_suggestions, raised, call, catalog,
                   ai_services_active, perplexity_insights, enhanced_suggestions,
                   ai_enhanced, ai_warning, served, strength>>

\* The next request, to the same analyzer and the same AI services, in a
\* later second: the files of the request before carry another timestamp and
\* leave the view of the model.
NextRequest ==
    /\ pc \in {"rejected", "responded"}
    /\ pc' = "received"
    /\ job_description' \in job_texts
    /\ resume_text' = None
    /\ resume_analysis' = None
    /\ job_analysis' = None
    /\ match_analysis' = None
    /\ basic_suggestions' = None
    /\ raised' = None
    /\ call' = None
    /\ perplexity_insights' = None
    /\ enhanced_suggestions' = None
    /\ ai_enhanced' = None
    /\ ai_warning' = None
    /\ response' = None
    /\ files' = {}
    /\ file_path' = None
    /\ generated_resumes' = None
    /\ UNCHANGED <<catalog, ai_services_active, served, strength>>

NextUpload ==
    \/ ValidateInputs
    \/ HandleFileUpload
    \/ ExtractText
    \/ AnalyzeResumeText
    \/ AnalyzeJobText
    \/ CalculateAdvancedMatchScore
    \/ GenerateAdvancedSuggestions
    \/ AnalysisFailed
    \/ AiEnhancement
    \/ Respond
    \/ NextRequest

SpecUpload == InitUpload /\ [][NextUpload]_vars

(***************************************************************************)
(* download_file and preview_resume of main.py, on the files of uploads/   *)
(***************************************************************************)

\* The parts of a path between its slashes.
RECURSIVE Components(_)
Components(path) ==
    LET slashes == {i \in 1..Len(path) : SubSeq(path, i, i) = "/"}
    IN  IF slashes = {} THEN <<path>>
        ELSE LET first == CHOOSE i \in slashes : \A j \in slashes : i <= j
             IN  <<SubSeq(path, 1, first - 1)>>
                 \o Components(SubSeq(path, first + 1, Len(path)))

\* os.path.basename with a path that keeps its directory.
basename_of_whole_path(path) == path

\* os.path.basename (posixpath): what follows the last slash
basename(path) == Components(path)[Len(Components(path))]

\* The directory entries from the working directory to what a relative path
\* names: "" and "." stay, ".." goes up.
RECURSIVE Walk(_, _)
Walk(parts, at) ==
    IF parts = <<>> THEN at
    ELSE Walk(Tail(parts),
              CASE Head(parts) \in {"", "."} -> at
                [] Head(parts) = ".." ->
                     IF at = <<>> \/ at[Len(at)] = ".." THEN at \o <<"..">>
                     ELSE SubSeq(at, 1, Len(at) - 1)
                [] OTHER -> at \o <<Head(parts)>>)

RECURSIVE PathOf(_)
PathOf(entries) ==
    IF entries = <<>> THEN "."
    ELSE IF Len(entries) = 1 THEN entries[1]
    ELSE entries[1] \o "/" \o PathOf(Tail(entries))

\* The path of the file-system entry that a path names.
normpath(path) == PathOf(Walk(Components(path), <<>>))

\* The directories of the working directory of the application.
directories == {".", "uploads", "uploads/optimized", "uploads/resumes"}

\* os.path.exists and os.path.isfile, with `existing` the files that exist
exists(path, existing) == normpath(path) \in existing \cup directories
isfile(path, existing) == normpath(path) \in existing

\* FileResponse(path=file_path, ...)
FileResponse(path) == [status_code |-> 200, path |-> path]

\* download_file(filename)
download_file(filename, existing) ==
    LET safe_filename == basename(filename)
        path == "uploads/optimized/" \o safe_filename
    IN  IF safe_filename # filename
        THEN HTTPException(400, <<"Invalid filename provided">>)
        ELSE IF ~exists(path, existing) \/ ~isfile(path, existing)
        THEN HTTPException(404, <<"Resume file not found or has expired">>)
        ELSE FileResponse(path)

\* preview_resume(filename)
preview_resume(filename, existing) ==
    LET safe_filename == basename(filename)
        path == "uploads/optimized/" \o safe_filename
    IN  IF ~IsPdf(filename)
        THEN HTTPException(400, <<"Only PDF files can be previewed">>)
        ELSE IF ~exists(path, existing)
        THEN HTTPException(404, <<"File not found">>)
        ELSE FileResponse(path)

\* The files that may exist when a request comes.
stored_files == {"uploads/optimized/report.pdf", "uploads/optimized/notes.txt",
                 "uploads/resumes/upload.pdf", "uploads/resumes/notes.txt",
                 "private.pdf"}

\* The file names of the requests.
requested_filenames ==
    {"report.pdf", "notes.txt", "Report.PDF", "..", ".pdf",
     "../resumes/upload.pdf", "../resumes/notes.txt", "../../private.pdf",
     "uploads/optimized/report.pdf", "old/notes.txt"}

InitDownload ==
    /\ pc = "serving"
    /\ files \in SUBSET stored_files
    /\ served = None
    /\ resume_text = None
    /\ job_description = None
    /\ resume_analysis = None
    /\ job_analysis = None
    /\ match_analysis = None
    /\ basic_suggestions = None
    /\ raised = None
    /\ call = None
    /\ catalog = Catalog
    /\ ai_services_active = FALSE
    /\ perplexity_insights = None
    /\ enhanced_suggestions = None
    /\ ai_enhanced = None
    /\ ai_warning = None
    /\ response = None
    /\ file_path = None
    /\ generated_resumes = None
    /\ strength = None

\* What a request for a file leaves: the request and its answer.
Serve(endpoint, filename, answer) ==
    /\ served' = [endpoint |-> endpoint, filename |-> filename, response |-> answer]
    /\ pc' = "served"
    /\ UNCHANGED <<resume_text, job_description, resume_analysis, job_analysis,
                   match_analysis, basic_suggestions, raised, call, catalog,
                   ai_services_active, perplexity_insights, enhanced_suggestions,
                   ai_enhanced, ai_warning, response, files, file_path,
                   generated_resumes, strength>>

\* GET /download/{filename}
DownloadFile ==
    /\ pc \in {"serving", "served"}
    /\ \E filename \in requested_filenames :
         Serve("download_file", filename, download_file(filename, files))

\* GET /preview/{filename}
PreviewResume ==
    /\ pc \in {"serving", "served"}
    /\ \E filename \in requested_filenames :
         Serve("preview_resume", filename, preview_resume(filename, files))

NextDownload ==
    \/ DownloadFile
    \/ PreviewResume

SpecDownload == InitDownload /\ [][NextDownload]_vars

(***************************************************************************)
(* The properties of the analysis pipeline (Spec, SpecCalls), of the       *)
(* scorer on Facts (SpecScore), of the ATS compatibility score (SpecAts),  *)
(* of the upload_resume request (SpecUpload), of the download and preview  *)
(* requests (SpecDownload) and of SimpleAnalyzer (SpecSimple).             *)
(***************************************************************************)

\* A text that is empty or whose trimmed length is below 50 characters.
Short(text) == text = <<>> \/ Len(Strip(text)) < 50

ResumeTooShort == "ValueError: Resume text is too short or empty for meaningful analysis"
JobTooShort == "ValueError: Job description is too short for meaningful analysis"

\* C1: analyze_resume and analyze_job_description, called with a text that is
\* empty or whose trimmed length is below 50, raise the too-short error and
\* give the caller no Facts record.
C1_TooShortFails ==
    /\ (call = "analyze_resume" /\ Short(resume_text)) =>
           /\ raised = ResumeTooShort
           /\ resume_analysis = None
           /\ pc = "failed"
    /\ (call = "analyze_job_description" /\ Short(job_description)) =>
           /\ raised = JobTooShort
           /\ job_analysis = None
           /\ pc = "failed"

\* analyze_resume has failed on a text of 50 characters or more of which
\* fewer than 50 are left after trimming.
C1_TrimmedBelowFloor ==
    /\ call = "analyze_resume"
    /\ Len(resume_text) >= 50
    /\ Len(Strip(resume_text)) = 49
    /\ raised = ResumeTooShort
    /\ resume_analysis = None

\* C2 as stated: the too-short failure reaches the caller of every public
\* analysis entry point, that of SimpleAnalyzer.analyze_job included: none
\* returns a Facts record for such a text.
C2_EveryEntryPointPropagates ==
    /\ (call = "analyze_resume" /\ Short(resume_text)) =>
           raised = ResumeTooShort /\ resume_analysis = None
    /\ (call \in {"analyze_job_description", "analyze_job"} /\ Short(job_description)) =>
           raised = JobTooShort /\ job_analysis = None

\* The fallback basic analysis of SimpleAnalyzer.analyze_job.
FallbackFacts ==
    [ technical_skills    |-> <<>>,
      soft_skills         |-> <<>>,
      keywords            |-> <<>>,
      experience_required |-> 0,
      job_level           |-> "Mid-level" ]

\* C2: the too-short failure reaches the caller of analyze_resume and of
\* analyze_job_description as the analyzer raised it, while
\* SimpleAnalyzer.analyze_job catches it and returns the fallback Facts
\* record, with which the caller goes on.
C2_PropagatesButForTheWrapper ==
    /\ (call = "analyze_resume" /\ Short(resume_text)) =>
           raised = ResumeTooShort /\ resume_analysis = None
    /\ (call = "analyze_job_description" /\ Short(job_description)) =>
           raised = JobTooShort /\ job_analysis = None
    /\ (call = "analyze_job" /\ Short(job_description)) =>
           /\ raised = None
           /\ job_analysis = FallbackFacts
           /\ pc = "job_analyzed"

\* SimpleAnalyzer.analyze_job has returned the fallback Facts for a job text
\* that is too short.
C2_WrapperReturnedFallback ==
    /\ call = "analyze_job"
    /\ Short(job_description)
    /\ raised = None
    /\ job_analysis = FallbackFacts

\* C3 as stated: as long as every text given has a trimmed length of at least
\* 50, no call raises: the two analyzers return Facts, and
\* calculate_advanced_match_score and generate_advanced_suggestions return
\* normally on the Facts so produced.
C3_NothingElseFails ==
    ( /\ resume_text # None /\ ~Short(resume_text)
      /\ job_description # None => ~Short(job_description) )
    => raised = None /\ pc # "failed"

\* The scorer has returned.
Scored == pc \in {"scored", "done"}

\* A set-valued and a plain field of the Facts, as the scorer reads them.
Skills(facts, key) == Range(Get(facts, key, <<>>))
AtsScore == Get(resume_analysis, "ats_compatibility_score", Num(0))

\* 0.35*technical + 0.15*soft + 0.20*experience + 0.10*education
\* + 0.10*industry + 0.10*keyword
WeightedSum(technical, soft, experience, education, industry, keyword) ==
    Add(Add(Add(Mul(Frac(35, 100), technical), Mul(Frac(15, 100), soft)),
            Add(Mul(Frac(20, 100), experience), Mul(Frac(10, 100), education))),
        Add(Mul(Frac(10, 100), industry), Mul(Frac(10, 100), keyword)))

\* The weighted sum times 0.7 + 0.3 * ats / 100.
Rescaled(sum, ats) == Mul(sum, Add(Frac(7, 10), Mul(Frac(3, 10), Mul(ats, Frac(1, 100)))))

\* The weighted sum of the dimension scores of the Facts of the state, before
\* they are rounded.
UnroundedSum ==
    WeightedSum(tech_score(resume_analysis, job_analysis).value,
                soft_score(resume_analysis, job_analysis).value,
                exp_score(resume_analysis, job_analysis).value,
                education_score(resume_analysis, job_analysis),
                industry_score(resume_analysis, job_analysis),
                keyword_score(resume_analysis, job_analysis).value)

\* The weighted sum of the dimension scores as the MatchResult reports them.
RoundedSum ==
    WeightedSum(match_analysis.technical_score, match_analysis.soft_skills_score,
                match_analysis.experience_score, match_analysis.education_score,
                match_analysis.industry_score, match_analysis.keyword_score)

\* The results of round(x, 1) on the floats of the value a.
Rounded(a) == {round_float(a, above) : above \in BOOLEAN}

\* C4: the overall score of a MatchResult is the weighted sum of the
\* unrounded dimension scores, times 0.7 + 0.3 * ATS score / 100, rounded to
\* one decimal at the end.
C4_OverallScore ==
    Scored => match_analysis.overall_score \in Rounded(Rescaled(UnroundedSum, AtsScore))

\* A MatchResult whose overall score is not what the rounded dimension scores
\* would give.
C4_RoundingOnlyAtTheEnd ==
    /\ pc = "scored"
    /\ match_analysis.overall_score \in Rounded(Rescaled(UnroundedSum, AtsScore))
    /\ match_analysis.overall_score \notin Rounded(Rescaled(RoundedSum, AtsScore))

\* The overall scores of the Facts of the state with the ATS score ats.
OverallWith(ats) ==
    { calculate_advanced_match_score(
          [resume_analysis EXCEPT !.ats_compatibility_score = ats], job_analysis,
          ListOf(Missing("technical_skills")), ListOf(Missing("soft_skills")), above
      ).value.overall_score : above \in BOOLEAN }

\* every score of overall[a] < every score of overall[b] whenever a < b
Increasing(overall) ==
    \A a, b \in DOMAIN overall :
        Lt(a, b) => \A x \in overall[a], y \in overall[b] : Lt(x, y)

\* C5: with the other Facts fixed, the overall score at the ATS score 100 is
\* the plain weighted sum, and of two ATS scores the smaller gives the
\* strictly smaller overall score.  The ATS scores are those the analyzer
\* computes.
C5_AtsRescaling ==
    Scored =>
        /\ match_analysis.overall_score \in OverallWith(AtsScore)
        /\ OverallWith(Num(100)) = Rounded(UnroundedSum)
        /\ Increasing([ats \in ats_scores |-> OverallWith(ats)])

\* A MatchResult of a resume with an ATS score below 100, whose overall score
\* is below the plain weighted sum.
C5_LowerAtsLowerScore ==
    /\ pc = "scored"
    /\ Lt(AtsScore, Num(100))
    /\ \A overall \in OverallWith(Num(100)) : Lt(match_analysis.overall_score, overall)
    /\ OverallWith(Num(100)) = Rounded(UnroundedSum)

\* |resume \cap job| / |job| * 100, and `vacuous` when the job's set is empty.
Share(resume, job, vacuous) ==
    IF job = {} THEN Num(vacuous)
    ELSE Frac(100 * Cardinality(resume \cap job), Cardinality(job))

TechnicalShare ==
    Share(Skills(resume_analysis, "technical_skills"),
          Skills(job_analysis, "technical_skills"), 100)
SoftShare ==
    Share(Skills(resume_analysis, "soft_skills"), Skills(job_analysis, "soft_skills"), 100)
KeywordShare ==
    Share(Skills(resume_analysis, "keywords"), Skills(job_analysis, "keywords"), 0)

\* C6: the technical score and the soft-skills score are each
\* |resume set \cap job set| / |job set| * 100, and 100 when the job's set is
\* empty.
C6_SkillScores ==
    Scored =>
        /\ tech_score(resume_analysis, job_analysis) = Return(TechnicalShare)
        /\ soft_score(resume_analysis, job_analysis) = Return(SoftShare)
        /\ match_analysis.technical_score = Round1(TechnicalShare)
        /\ match_analysis.soft_skills_score = Round1(SoftShare)

\* A MatchResult of a job without technical skills and with soft skills of
\* which the resume has a part.
C6_EmptyAndPartial ==
    /\ pc = "scored"
    /\ Skills(job_analysis, "technical_skills") = {}
    /\ Skills(resume_analysis, "technical_skills") # {}
    /\ match_analysis.technical_score = Num(100)
    /\ match_analysis.soft_skills_score = Num(50)

\* C7: the keyword score is |resume keywords \cap job keywords| /
\* |job keywords| * 100, and 0 when the job has no keywords.
C7_KeywordScore ==
    Scored =>
        /\ keyword_score(resume_analysis, job_analysis) = Return(KeywordShare)
        /\ match_analysis.keyword_score = Round1(KeywordShare)
        /\ (Skills(job_analysis, "keywords") = {} => match_analysis.keyword_score = Num(0))

\* A MatchResult of a job with neither keywords nor technical skills: the
\* keyword score is 0 where the technical score is 100.
C7_NoJobKeywords ==
    /\ pc = "scored"
    /\ Skills(job_analysis, "keywords") = {}
    /\ Skills(resume_analysis, "keywords") # {}
    /\ Skills(job_analysis, "technical_skills") = {}
    /\ match_analysis.keyword_score = Num(0)
    /\ match_analysis.technical_score = Num(100)

\* The experience score of `resume` years against `required` years.
ExperienceFor(resume, required) ==
    IF required = 0 THEN Num(100)
    ELSE IF resume >= required
    THEN IF 2 * resume <= 3 * required THEN Num(100)
         ELSE MaxQ(Num(70),
                   Sub(Num(100), Mul(Num(5), Sub(Num(resume), Frac(3 * required, 2)))))
    ELSE MaxQ(Num(0), Num(100 - 20 * (required - resume)))

\* C8: the experience score is 100 when no years are required; with the
\* required years reached, 100 up to 1.5 times the required years and
\* max(70, 100 - 5 * (resume - 1.5 * required)) above; and
\* max(0, 100 - 20 * (required - resume)) below the required years: 100 for
\* 5 years against 5, 97.5 for 8 years against 5.  (A score is there when
\* the scorer has returned.)
C8_ExperienceScore ==
    Scored =>
        /\ exp_score(resume_analysis, job_analysis)
               = Return(ExperienceFor(resume_analysis.experience_years,
                                      job_analysis.experience_required))
        /\ match_analysis.experience_score
               = Round1(ExperienceFor(resume_analysis.experience_years,
                                      job_analysis.experience_required))
        /\ job_analysis.experience_required = 5 =>
               /\ resume_analysis.experience_years = 5 =>
                      match_analysis.experience_score = Num(100)
               /\ resume_analysis.experience_years = 8 =>
                      match_analysis.experience_score = Frac(975, 10)

\* A MatchResult of 8 years against 5 required.
C8_EightAgainstFive ==
    /\ pc = "scored"
    /\ resume_analysis.experience_years = 8
    /\ job_analysis.experience_required = 5
    /\ match_analysis.experience_score = Frac(975, 10)

\* associates = 1, bachelors = 2, masters = 3, phd = 4, unknown = 0
LevelOf(education) ==
    CASE education = "associates" -> 1
      [] education = "bachelors" -> 2
      [] education = "masters" -> 3
      [] education = "phd" -> 4
      [] OTHER -> 0

\* The education score of a resume so many levels below the requirement.
EducationFor(below) ==
    IF below <= 0 THEN Num(100)
    ELSE IF below = 1 THEN Num(75)
    ELSE IF below = 2 THEN Num(50)
    ELSE Num(25)

\* C9: the education score is 100 when the job requires no education or the
\* resume's level is at least the required one, 75 one level below, 50 two
\* levels below, and 25 otherwise.
C9_EducationScore ==
    Scored =>
        match_analysis.education_score =
            IF job_analysis.education_required = None THEN Num(100)
            ELSE EducationFor(LevelOf(job_analysis.education_required)
                              - LevelOf(resume_analysis.education_level))

\* A MatchResult of a resume two levels below the required one.
C9_TwoLevelsBelow ==
    /\ pc = "scored"
    /\ resume_analysis.education_level = "bachelors"
    /\ job_analysis.education_required = "phd"
    /\ match_analysis.education_score = Num(50)

\* C10: the industry score is 70 when the industry of either side is not
\* known (None), 100 when both are the same, 80 when the job's industry is
\* among those related to the resume's, and 50 otherwise.  ('general' is an
\* industry like the others.)
C10_IndustryScore ==
    Scored =>
        match_analysis.industry_score =
            IF job_analysis.industry = None \/ resume_analysis.detected_industry = None
            THEN Num(70)
            ELSE IF job_analysis.industry = resume_analysis.detected_industry
            THEN Num(100)
            ELSE IF job_analysis.industry
                        \in related_industries(resume_analysis.detected_industry)
            THEN Num(80)
            ELSE Num(50)

\* A MatchResult of a technology resume for a fintech job.
C10_RelatedIndustry ==
    /\ pc = "scored"
    /\ resume_analysis.detected_industry = "technology"
    /\ job_analysis.industry = "fintech"
    /\ "technology" \notin related_industries("fintech")
    /\ match_analysis.industry_score = Num(80)

\* The scores of a MatchResult.
ScoreKeys ==
    { "overall_score", "technical_score", "soft_skills_score", "experience_score",
      "education_score", "industry_score", "keyword_score", "ats_compatibility_score" }

\* 0 <= x <= 100
InRange(x) == Le(Num(0), x) /\ Le(x, Num(100))

\* C11: in every MatchResult, each of the six dimension scores, the ATS
\* compatibility score and the overall score lies in the range 0 to 100.
C11_ScoresInRange ==
    Scored => \A key \in ScoreKeys : InRange(match_analysis[key])

\* A MatchResult with a dimension score at each end of the range: no years
\* of the many required, and every technical skill of a job that names none.
C11_BothEndsOfTheRange ==
    /\ pc = "scored"
    /\ job_analysis.experience_required - resume_analysis.experience_years > 5
    /\ match_analysis.experience_score = Num(0)
    /\ match_analysis.technical_score = Num(100)
    /\ Lt(Num(0), match_analysis.overall_score)
    /\ Lt(match_analysis.overall_score, Num(100))

\* poor below 50, fair below 70, good below 85, excellent from 85
Bucket(score) ==
    IF Lt(score, Num(50)) THEN "poor"
    ELSE IF Lt(score, Num(70)) THEN "fair"
    ELSE IF Lt(score, Num(85)) THEN "good"
    ELSE "excellent"

\* C12 as stated: in every MatchResult, match_strength is the bucket of the
\* reported overall_score: poor below 50, fair from 50 and below 70, good
\* from 70 and below 85, excellent from 85.
C12_StrengthOfReportedScore ==
    Scored => match_analysis.match_strength = Bucket(match_analysis.overall_score)

\* The position of a skill in the catalog of technical skills.
CatalogPosition(skill) ==
    CHOOSE i \in DOMAIN all_technical_skills : all_technical_skills[i] = skill

\* a comes before b: it is more important, or as important and earlier in
\* the catalog.
Before(a, b) ==
    \/ skill_importance(a) > skill_importance(b)
    \/ /\ skill_importance(a) = skill_importance(b)
       /\ CatalogPosition(a) < CatalogPosition(b)

\* The skills of a set by descending importance, in catalog order where the
\* importance is the same.
ByImportance(skills) ==
    CHOOSE order \in Orders(skills) :
        \A i, j \in DOMAIN order : i < j => Before(order[i], order[j])

\* C13 as stated: top_skill_gaps is the list of the missing technical skills
\* by descending importance (3 for a skill the table does not list), skills
\* of equal importance in the order of the skill catalog, cut to 5: the same
\* Facts always give the same list.
C13_TopSkillGapsInCatalogOrder ==
    Scored =>
        match_analysis.top_skill_gaps
            = Take(ByImportance(Missing("technical_skills")), MaxSkillGaps)

\* C14: generate_advanced_suggestions returns at most 10 messages.
C14_AtMostTenSuggestions ==
    pc = "done" => Len(basic_suggestions) <= 10

\* Suggestions of a pair for which the stages give more than 10 messages: the
\* 10 returned are the first 10 of them.
C14_MoreThanTenCut ==
    /\ pc = "done"
    /\ Len(StageMessages(match_analysis, resume_analysis, job_analysis)) + 3 > 10
    /\ Len(basic_suggestions) = 10
    /\ basic_suggestions
           = Take(StageMessages(match_analysis, resume_analysis, job_analysis), 10)

\* The resume has been analyzed: resume_analysis holds its Facts.
ResumeAnalyzed == pc \notin {"start", "failed"} /\ resume_text # None

\* The characters of words: letters, digits and the underscore.
IsWordChar(c) == c \in WordSet

\* The places of a text where the word begins.
Occurrences(word, text) == {i \in DOMAIN text : StartsAt(text, word, i)}

\* The occurrence at i stands alone: blanks or the ends of the text around it.
AloneAt(word, text, i) ==
    /\ i = 1 \/ text[i - 1] = " "
    /\ i + Len(word) > Len(text) \/ text[i + Len(word)] = " "

\* The occurrence at i is inside a longer word: a word character next to it.
InsideAt(word, text, i) ==
    \/ i > 1 /\ IsWordChar(text[i - 1])
    \/ i + Len(word) <= Len(text) /\ IsWordChar(text[i + Len(word)])

Standalone(word, text) == \E i \in Occurrences(word, text) : AloneAt(word, text, i)
EmbeddedOnly(word, text) ==
    /\ Occurrences(word, text) # {}
    /\ \A i \in Occurrences(word, text) : InsideAt(word, text, i)

\* C15 as stated: for every catalog skill, the Facts of a text that contains
\* the skill as a standalone word include it among the technical skills, and
\* the Facts of a text that contains it only inside a longer word do not.
C15_StandaloneSkillsOnly ==
    ResumeAnalyzed =>
        \A k \in DOMAIN all_technical_skills :
            LET skill == all_technical_skills[k]
                found == skill \in Range(resume_analysis.technical_skills)
            IN  /\ Standalone(S(skill), Lower(resume_text)) => found
                /\ EmbeddedOnly(S(skill), Lower(resume_text)) => ~found

\* A pattern of the level is found in the text, whatever the case.
HasLevel(level, text) ==
    \E k \in DOMAIN education_patterns :
        /\ education_patterns[k][1] = level
        /\ \E i \in DOMAIN education_patterns[k][2] :
               Search(education_patterns[k][2][i], Lower(text))

\* The first of phd, masters, bachelors, associates with a pattern found.
HighestLevel(text) ==
    IF HasLevel("phd", text) THEN "phd"
    ELSE IF HasLevel("masters", text) THEN "masters"
    ELSE IF HasLevel("bachelors", text) THEN "bachelors"
    ELSE IF HasLevel("associates", text) THEN "associates"
    ELSE None

\* C16: the education level of the Facts is the first of phd, masters,
\* bachelors, associates of which a pattern matches the text, and None when
\* no pattern matches: a text with a PhD token and a Bachelor token gives phd.
C16_EducationPriority ==
    ResumeAnalyzed =>
        /\ resume_analysis.education_level = HighestLevel(resume_text)
        /\ HasLevel("phd", resume_text) /\ HasLevel("bachelors", resume_text)
               => resume_analysis.education_level = "phd"

\* The Facts of a text with a PhD token and a Bachelor token.
C16_PhdAndBachelor ==
    /\ pc = "resume_analyzed"
    /\ HasLevel("phd", resume_text)
    /\ HasLevel("bachelors", resume_text)
    /\ resume_analysis.education_level = "phd"

\* The ATS score of the resume text has been computed.
AtsCalculated == pc = "ats_calculated"

\* The number of the four standard section headings in the text.
SectionsFound(text) ==
    Cardinality({section \in {"experience", "education", "skills", "summary"} :
                    Contains(Lower(text), S(section))})

\* 10 for a character that is not ASCII
AccentPenalty(text) == IF \E i \in DOMAIN text : text[i] = NonAscii THEN 10 ELSE 0

\* 15 below 300 words, 5 above 800
LengthPenalty(text) ==
    IF WordCount(text) < 300 THEN 15 ELSE IF WordCount(text) > 800 THEN 5 ELSE 0

\* C17: the ATS score of a resume is 100, less 10 if a character is not
\* ASCII, less 20 - 5 * the number of the four standard sections found, less
\* 15 if the text has fewer than 300 words or 5 if it has more than 800; it
\* lies in the range 0 to 100.
C17_AtsScore ==
    AtsCalculated =>
        /\ resume_analysis.ats_compatibility_score
               = Num(100 - AccentPenalty(resume_text)
                         - (20 - 5 * SectionsFound(resume_text))
                         - LengthPenalty(resume_text))
        /\ InRange(resume_analysis.ats_compatibility_score)

\* The score of a resume of 801 words with an accent and two of the four
\* sections: 100 - 10 - 10 - 5.
C17_LongResumeWithAccent ==
    /\ AtsCalculated
    /\ WordCount(resume_text) = 801
    /\ SectionsFound(resume_text) = 2
    /\ AccentPenalty(resume_text) = 10
    /\ resume_analysis.ats_compatibility_score = Num(75)

IsPrefix(a, b) == Len(a) <= Len(b) /\ SubSeq(b, 1, Len(a)) = a

\* The AI step of the request has run.
AiStepDone == pc \in {"enhanced", "responded"}

\* The items the AI step got: the list under 'recommended_action_items'.
AiSuggestions ==
    IF "recommended_action_items" \in DOMAIN perplexity_insights
       /\ perplexity_insights.recommended_action_items.type = "list"
    THEN perplexity_insights.recommended_action_items.value
    ELSE <<>>

\* C19: in the upload-resume request the local analysis does not depend on
\* the AI collaborator.  When the AI step is inactive or raises, the
\* suggestions are exactly the locally computed list; when it succeeds, the
\* local list is an unchanged beginning of the final list and the AI items
\* (at most five) come after it.  The response carries the final list, and
\* once the local analysis is done a request is rejected only when none of
\* the resume files could be written.
C19_AiIsAdditive ==
    /\ AiStepDone =>
         /\ (~ai_services_active \/ ai_warning # None) =>
                enhanced_suggestions = basic_suggestions
         /\ IsPrefix(basic_suggestions, enhanced_suggestions)
         /\ IsPrefix(SubSeq(enhanced_suggestions, Len(basic_suggestions) + 1,
                            Len(enhanced_suggestions)),
                     AiSuggestions)
         /\ Len(enhanced_suggestions) <= Len(basic_suggestions) + 5
         /\ basic_suggestions
                = generate_advanced_suggestions(match_analysis, resume_analysis,
                                                job_analysis).value
    /\ pc = "responded" =>
         /\ response.status_code = 200
         /\ response.suggestions = enhanced_suggestions
    /\ pc = "rejected" =>
         \/ /\ response.status_code = 500
            /\ response.detail = <<"Resume analysis failed: ", "OSError",
                                   ". Please try again or contact support.">>
         \/ perplexity_insights = None /\ basic_suggestions = None

\* The AI step raised (the AI sent text where a list was asked for), and the
\* request has responded with the local suggestions.
C19_AiStepRaised ==
    /\ pc = "responded"
    /\ ai_services_active
    /\ ai_warning # None
    /\ perplexity_insights.recommended_action_items.type = "str"
    /\ response.status_code = 200
    /\ response.suggestions = basic_suggestions
    /\ Len(basic_suggestions) > 0

\* The decimal digits of a number.
RECURSIVE DigitsOf(_)
DigitsOf(n) ==
    IF n < 10 THEN <<DigitChars[n + 1]>>
    ELSE DigitsOf(n \div 10) \o <<DigitChars[(n % 10) + 1]>>

\* The message has the number n in it.
Names(detail, n) == \E i \in DOMAIN detail : Contains(S(detail[i]), DigitsOf(n))

\* The request was rejected for its file, before its texts were looked at.
FileRejected ==
    response.detail[1] \in {"No file uploaded",
                            "Only PDF files are supported. Please convert your resume to PDF format.",
                            "File too large: ", "File upload failed: "}

\* C20: an upload-resume request whose job description is too short (below
\* 50 characters, trimmed) or whose extracted resume text is too short (below
\* 100) is rejected, and the message of the rejection names the minimum
\* length.
C20_TooShortNamesTheMinimum ==
    /\ (pc # "received" /\ Insufficient(job_description, MinJobLen)) =>
         /\ pc = "rejected"
         /\ response.status_code = 400
         /\ FileRejected \/ Names(response.detail, MinJobLen)
    /\ (resume_text # None /\ Insufficient(resume_text, MinResumeLen)) =>
         /\ pc = "rejected"
         /\ response.status_code = 400
         /\ Names(response.detail, MinResumeLen)

\* The suggestions have been returned.
Suggested == pc = "done"

\* The messages of the list that are of one of the kinds.
OfKinds(messages, kinds) == SelectSeq(messages, LAMBDA message : message.kind \in kinds)

\* The messages about missing technical skills.
TechnicalMessages == OfKinds(basic_suggestions, {"HIGH PRIORITY", "TECHNICAL SKILLS"})

\* C21: when the MatchResult has missing technical skills, the suggestions
\* hold one message about them: it names the first 3 of top_skill_gaps if
\* more than 3 skills are missing, and every missing skill otherwise.
C21_TechnicalSkillsMessage ==
    (Suggested /\ match_analysis.missing_technical_skills # <<>>) =>
        /\ Len(TechnicalMessages) = 1
        /\ IF Len(match_analysis.missing_technical_skills) > 3
           THEN TechnicalMessages[1]
                    = Msg("HIGH PRIORITY", Take(match_analysis.top_skill_gaps, 3))
           ELSE /\ TechnicalMessages[1].kind = "TECHNICAL SKILLS"
                /\ Range(TechnicalMessages[1].args)
                       = Range(match_analysis.missing_technical_skills)
                /\ Len(TechnicalMessages[1].args)
                       = Len(match_analysis.missing_technical_skills)

\* A job that asks for python, sql and aws and a resume with python and sql:
\* the message names aws.
C21_MessageNamesAws ==
    /\ Suggested
    /\ Skills(job_analysis, "technical_skills") = {"python", "sql", "aws"}
    /\ Skills(resume_analysis, "technical_skills") = {"python", "sql"}
    /\ TechnicalMessages = <<Msg("TECHNICAL SKILLS", <<"aws">>)>>

\* The messages of each of the stages 1 to 10 for the Facts and the
\* MatchResult of the state.
StagesOfState ==
    << Stage1(match_analysis.overall_score),
       Stage2(match_analysis, match_analysis.missing_technical_skills),
       Stage3(match_analysis),
       Stage4(match_analysis.missing_soft_skills),
       Stage5(match_analysis), Stage6(resume_analysis), Stage7(match_analysis),
       Stage8(match_analysis, resume_analysis, job_analysis),
       Stage9(match_analysis, job_analysis),
       Stage10(match_analysis.match_strength) >>

\* C22: for every MatchResult of calculate_advanced_match_score each of the
\* stages 1 to 10 appends at most one message; the experience gap is
\* max(0, required - resume), the surplus max(0, resume - required), and
\* the two are never both positive, so that stage 3 never gives a message
\* about the gap together with the one about overqualification.
C22_AtMostOneMessagePerStage ==
    Scored =>
        /\ \A stage \in DOMAIN StagesOfState : Len(StagesOfState[stage]) <= 1
        /\ ~(match_analysis.experience_gap > 0 /\ match_analysis.experience_surplus > 0)
        /\ match_analysis.experience_gap >= 0
        /\ match_analysis.experience_surplus >= 0
        /\ match_analysis.experience_gap - match_analysis.experience_surplus
               = Get(job_analysis, "experience_required", 0)
                 - Get(resume_analysis, "experience_years", 0)

\* A resume of 8 years for a job of 2: the surplus is 6, there is no gap, and
\* stage 3 gives the message about overqualification alone.
C22_OverqualifiedAlone ==
    /\ Suggested
    /\ match_analysis.experience_surplus = 6
    /\ match_analysis.experience_gap = 0
    /\ Stage3(match_analysis) = <<Msg("overqualified", <<>>)>>
    /\ Len(OfKinds(basic_suggestions, {"overqualified"})) = 1
    /\ OfKinds(basic_suggestions, {"EXPERIENCE GAP", "transferable skills"}) = <<>>

\* The number of messages of the stages 1 to 10 for the state.
StageCount == Len(StageMessages(match_analysis, resume_analysis, job_analysis))

\* The last n messages of a list.
Last(messages, n) == SubSeq(messages, Len(messages) - n + 1, Len(messages))

\* C23: whenever the stages 1 to 10 gave fewer than 7 messages, the list
\* returned ends with the first 3 items of the fixed universal list, in the
\* order of that list.
C23_UniversalAtTheEnd ==
    (Suggested /\ StageCount < 7) =>
        /\ Len(basic_suggestions) = StageCount + 3
        /\ Last(basic_suggestions, 3)
               = << universal_suggestions[1], universal_suggestions[2],
                    universal_suggestions[3] >>

\* Six messages of the stages, and the three universal ones after them.
C23_SixAndThree ==
    /\ Suggested
    /\ StageCount = 6
    /\ Len(basic_suggestions) = 9
    /\ basic_suggestions[7] = universal_suggestions[1]
    /\ basic_suggestions[9] = universal_suggestions[3]

\* The messages given for the match strength.
StrengthKinds == {"STRATEGY", "OPTIMIZATION", "FINE-TUNING", "EXCELLENT MATCH"}

\* The kind of message of each match strength.
StrengthKind(match_strength) ==
    CASE match_strength = "poor" -> "STRATEGY"
      [] match_strength = "fair" -> "OPTIMIZATION"
      [] match_strength = "good" -> "FINE-TUNING"
      [] match_strength = "excellent" -> "EXCELLENT MATCH"

\* C24: every list generate_advanced_suggestions returns holds exactly one
\* message for the match strength, the one of the match_strength of the
\* MatchResult; the cut to 10 messages never removes it, whichever of the
\* stages 1 to 9 gave a message.
C24_OneStrengthMessage ==
    Suggested =>
        /\ OfKinds(basic_suggestions, StrengthKinds)
               = <<Msg(StrengthKind(match_analysis.match_strength), <<>>)>>
        /\ StageCount <= MaxSuggestions
        /\ basic_suggestions[StageCount].kind \in StrengthKinds

\* Every one of the stages 1 to 9 gave a message: the message of the match
\* strength is the tenth and last of the list.
C24_StrengthMessageIsTenth ==
    /\ Suggested
    /\ StageCount = 10
    /\ Len(basic_suggestions) = 10
    /\ basic_suggestions[10] = Msg("STRATEGY", <<>>)
    /\ match_analysis.match_strength = "poor"

\* ---------------------------------------------------------------------
\* The files of upload_resume (SpecUpload)

\* The request is over: its response was returned or its exception raised.
Finished == pc \in {"rejected", "responded"}

\* upload_resume returned the result page.
Succeeded == pc = "responded"

\* C25: after an upload_resume request has finished, through a rejection, a
\* failed extraction or analysis, or the result page of any generation path,
\* the PDF that it saved under uploads/resumes no longer exists.
C25_UploadedPdfIsRemoved ==
    Finished => UploadPath(UploadedName) \notin files

\* C26: when upload_resume returns the result page, the file of its primary
\* resume, which is the file of its download link, exists under
\* uploads/optimized.
C26_PrimaryFileExists ==
    Succeeded =>
        /\ response.primary_resume.pdf_path \in files
        /\ response.primary_resume.pdf_path
             = output_dir \o "/" \o response.primary_resume.filename
        /\ response.download_link = "/download/" \o response.primary_resume.filename

\* The entries of a list of resumes that are marked as primary.
Primaries(resumes) == {i \in 1..Len(resumes) : resumes[i].is_primary}

\* C27: every result page of upload_resume carries a generated_resumes list
\* that is not empty and has exactly one entry with is_primary true, on
\* every generation path and whichever alternative templates failed.
C27_ExactlyOnePrimary ==
    Succeeded =>
        /\ response.generated_resumes # <<>>
        /\ Cardinality(Primaries(response.generated_resumes)) = 1

\* C27 happens: a result page of the HTML path whose template has two
\* alternatives, both of which failed: the primary resume stands alone.
C27_AlternativesMadeAndFailed ==
    /\ Succeeded
    /\ response.generation_method = "html_to_pdf_success"
    /\ response.primary_resume.layout_name = "Classic Professional"
    /\ Len(response.generated_resumes) = 1

\* ---------------------------------------------------------------------
\* The download and preview requests (SpecDownload)

\* The request named a path with a directory in it.
HasPathComponent(filename) ==
    \E i \in 1..Len(filename) : SubSeq(filename, i, i) = "/"

\* The directory of a file-system entry.
DirectoryOf(path) ==
    LET entries == Walk(Components(path), <<>>)
    IN  IF entries = <<>> THEN ".." ELSE PathOf(SubSeq(entries, 1, Len(entries) - 1))

\* The answer of the request is a file.
FileServed == pc = "served" /\ served.response.status_code = 200

\* C28: download_file and preview_resume answer with a file only when it is
\* a file directly inside uploads/optimized; download_file answers 400 to a
\* file name with a path component; and a file name that passes the test of
\* its endpoint (no path component for download_file, a .pdf ending for
\* preview_resume) and names no file of uploads/optimized is answered 404.
C28_OnlyFilesOfOptimized ==
    pc = "served" =>
        /\ FileServed =>
             /\ normpath(served.response.path) \in files
             /\ DirectoryOf(served.response.path) = output_dir
        /\ (served.endpoint = "download_file" /\ HasPathComponent(served.filename))
             => served.response.status_code = 400
        /\ (/\ IF served.endpoint = "download_file"
               THEN ~HasPathComponent(served.filename)
               ELSE IsPdf(served.filename)
            /\ output_dir \o "/" \o basename(served.filename) \notin files)
             => served.response.status_code = 404

\* C28 happens: a download with a path into uploads/resumes, where the file
\* of that path exists, was answered 400.
C28_TraversalRejected ==
    /\ pc = "served"
    /\ "uploads/resumes/upload.pdf" \in files
    /\ served.endpoint = "download_file"
    /\ served.filename = "../resumes/upload.pdf"
    /\ served.response.status_code = 400

\* ---------------------------------------------------------------------
\* The AI flag of the result page (SpecUpload)

\* The insights are the JSON that the AI answered: enhance_resume_analysis
\* marks that JSON, and nothing else, with the method perplexity_ai.
AiCallSucceeded(insights) ==
    /\ "enhancement_method" \in DOMAIN insights
    /\ insights.enhancement_method = JsonStr("perplexity_ai")

\* C29: the result page of upload_resume is flagged ai_enhanced, and holds
\* suggestions beyond the local ones, only when the call of the AI
\* succeeded; after an error status or an exception inside the collaborator
\* it is flagged as not AI-enhanced and holds exactly the local suggestions.
C29_AiFlagOnlyOnSuccess ==
    Succeeded =>
        \/ AiCallSucceeded(response.ai_insights)
        \/ /\ response.ai_enhanced = FALSE
           /\ response.suggestions = basic_suggestions

\* ---------------------------------------------------------------------
\* The match strength of SimpleAnalyzer (SpecSimple)

\* C30: for every score, get_match_strength of SimpleAnalyzer returns the
\* category that _categorize_match_strength of the scorer returns, one of
\* poor, fair, good and excellent.
C30_SameCategory ==
    pc = "categorized" =>
        /\ strength = _categorize_match_strength(match_analysis.overall_score)
        /\ strength \in {"poor", "fair", "good", "excellent"}

=============================================================================
